---- MODULE Spec2Model ----
(***************************************************************************)
(* A model of jsonpart (src/jsonpart.go): the partial-key locator Parse,   *)
(* the recursive-descent parser, the lazily unescaped value tree, its      *)
(* path accessors and its serializer.                                       *)
(*                                                                          *)
(* Texts are sequences of bytes (0..255).  The parser's cache c.vs is a     *)
(* sequence of Value records; a *Value is an index into it (NilPtr for nil, *)
(* a negative index for the shared valueTrue/valueFalse/valueNull).         *)
(***************************************************************************)
EXTENDS Integers, Sequences, FiniteSets, TLC

VARIABLES s, partialKey, path, pc, vs, root, err, out

vars == <<s, partialKey, path, pc, vs, root, err, out>>

(***************************************************************************)
(* Bytes                                                                    *)
(***************************************************************************)
Ch == [quote |-> 34, backslash |-> 92, lbrace |-> 123, rbrace |-> 125,
       lbrack |-> 91, rbrack |-> 93, comma |-> 44, colon |-> 58,
       space |-> 32, tab |-> 9, lf |-> 10, cr |-> 13, bs |-> 8, ff |-> 12,
       plus |-> 43, minus |-> 45, dot |-> 46, slash |-> 47,
       zero |-> 48, one |-> 49, two |-> 50, nine |-> 57,
       a |-> 97, b |-> 98, e |-> 101, f |-> 102, k |-> 107, n |-> 110,
       r |-> 114, t |-> 116, u |-> 117, x |-> 120,
       E |-> 69, I |-> 73, N |-> 78]

StrTrue == <<116, 114, 117, 101>>
StrFalse == <<102, 97, 108, 115, 101>>
StrNull == <<110, 117, 108, 108>>
StrNan == <<110, 97, 110>>
StrInf == <<105, 110, 102>>
StrInfinity == <<105, 110, 102, 105, 110, 105, 116, 121>>
StrEllipsis == <<46, 46, 46>>

\* s[n:] and s[:n] of Go, for a 0-based n.
Drop(str, n) == SubSeq(str, n + 1, Len(str))
Take(str, n) == SubSeq(str, 1, n)

\* strings.IndexByte: the 0-based index of the first ch in str, or -1.
IndexByte(str, ch) ==
    IF \E i \in 1..Len(str) : str[i] = ch
    THEN (CHOOSE i \in 1..Len(str) :
            str[i] = ch /\ \A j \in 1..(i - 1) : str[j] # ch) - 1
    ELSE -1

\* strings.HasPrefix.
HasPrefix(str, p) == Len(str) >= Len(p) /\ Take(str, Len(p)) = p

\* strings.Index: the 0-based index of the first occurrence of sub, or -1.
Index(str, sub) ==
    IF \E i \in 0..(Len(str) - Len(sub)) : HasPrefix(Drop(str, i), sub)
    THEN CHOOSE i \in 0..(Len(str) - Len(sub)) :
            /\ HasPrefix(Drop(str, i), sub)
            /\ \A j \in 0..(i - 1) : ~HasPrefix(Drop(str, j), sub)
    ELSE -1

\* ASCII letters fold to lower case (strings.EqualFold on the tokens used).
Lower(ch) == IF ch >= 65 /\ ch <= 90 THEN ch + 32 ELSE ch

EqualFold(x, y) ==
    Len(x) = Len(y) /\ \A i \in 1..Len(x) : Lower(x[i]) = Lower(y[i])

(***************************************************************************)
(* Errors: fmt.Errorf(msg, arg) is a one-element sequence; wrapping an      *)
(* error ("...: %s", err) prepends the wrapper's message.                   *)
(***************************************************************************)
NoErr == <<>>
Errorf(msg, arg) == <<[msg |-> msg, arg |-> arg]>>
Wrap(msg, e) == <<[msg |-> msg, arg |-> <<>>]>> \o e

maxStartEndStringLen == 80

startEndString(str) ==
    IF Len(str) <= maxStartEndStringLen
    THEN str
    ELSE Take(str, 40) \o StrEllipsis \o Drop(str, Len(str) - 40)

isWS(ch) == ch = 32 \/ ch = 10 \/ ch = 9 \/ ch = 13

RECURSIVE skipWSSlow(_)
skipWSSlow(str) ==
    IF Len(str) = 0 \/ ~isWS(str[1])
    THEN str
    ELSE skipWSSlow(Drop(str, 1))

skipWS(str) ==
    IF Len(str) = 0 \/ str[1] > 32
    THEN str
    ELSE skipWSSlow(str)

(***************************************************************************)
(* Values                                                                   *)
(***************************************************************************)
typeNull == 0
typeObject == 1
typeArray == 2
typeString == 3
typeNumber == 4
typeTrue == 5
typeFalse == 6
typeRawString == 7

NilPtr == 0
valueTrue == -1
valueFalse == -2
valueNull == -3

\* Value{}: the zero value getValue appends to the cache.
ZeroObject == [kvs |-> <<>>, keysUnescaped |-> FALSE]
ZeroValue == [t |-> typeNull, s |-> <<>>, a |-> <<>>, o |-> ZeroObject]

\* The process-wide singletons.
Singletons ==
    [p \in {valueTrue, valueFalse, valueNull} |->
        [ZeroValue EXCEPT !.t = CASE p = valueTrue -> typeTrue
                                  [] p = valueFalse -> typeFalse
                                  [] OTHER -> typeNull]]

\* cache.getValue: the cache with one more slot; the new node is the last.
getValue(c) == Append(c, ZeroValue)

\* The node a pointer refers to.
Deref(c, p) == IF p > 0 THEN c[p] ELSE Singletons[p]

(***************************************************************************)
(* Scanners                                                                 *)
(***************************************************************************)
\* The number of consecutive backslashes that end str[:n] (n 0-based).
RECURSIVE backslashRunStart(_, _)
backslashRunStart(str, i) ==
    IF i > 0 /\ str[i] = Ch.backslash
    THEN backslashRunStart(str, i - 1)
    ELSE i

\* parseRawString's slow path loop: ss is the whole text, str the current
\* remainder and n the index in str of the candidate quote.
RECURSIVE parseRawStringLoop(_, _, _)
parseRawStringLoop(ss, str, n) ==
    LET i == backslashRunStart(str, n - 1) IN
    IF (n - i) % 2 = 0
    THEN [ss |-> Take(ss, Len(ss) - Len(str) + n), tail |-> Drop(str, n + 1),
          err |-> NoErr]
    ELSE LET str2 == Drop(str, n + 1)
             n2 == IndexByte(str2, Ch.quote) IN
         IF n2 < 0
         THEN [ss |-> ss, tail |-> <<>>,
               err |-> Errorf("missing closing '\"'", <<>>)]
         ELSE IF n2 = 0 \/ str2[n2] # Ch.backslash
         THEN [ss |-> Take(ss, Len(ss) - Len(str2) + n2),
               tail |-> Drop(str2, n2 + 1), err |-> NoErr]
         ELSE parseRawStringLoop(ss, str2, n2)

\* parseRawString with its fast path alone: the first quote ends the string.
parseRawStringFirstQuote(str) ==
    LET n == IndexByte(str, Ch.quote) IN
    IF n < 0
    THEN [ss |-> str, tail |-> <<>>, err |-> Errorf("missing closing '\"'", <<>>)]
    ELSE [ss |-> Take(str, n), tail |-> Drop(str, n + 1), err |-> NoErr]

parseRawString(str) ==
    LET n == IndexByte(str, Ch.quote) IN
    IF n < 0
    THEN [ss |-> str, tail |-> <<>>, err |-> Errorf("missing closing '\"'", <<>>)]
    ELSE IF n = 0 \/ str[n] # Ch.backslash
    THEN [ss |-> Take(str, n), tail |-> Drop(str, n + 1), err |-> NoErr]
    ELSE parseRawStringLoop(str, str, n)

RECURSIVE parseRawKeyFrom(_, _)
parseRawKeyFrom(str, i) ==
    IF i >= Len(str)
    THEN [ss |-> str, tail |-> <<>>, err |-> Errorf("missing closing '\"'", <<>>)]
    ELSE IF str[i + 1] = Ch.quote
    THEN [ss |-> Take(str, i), tail |-> Drop(str, i + 1), err |-> NoErr]
    ELSE IF str[i + 1] = Ch.backslash
    THEN parseRawString(str)
    ELSE parseRawKeyFrom(str, i + 1)

parseRawKey(str) == parseRawKeyFrom(str, 0)

isNumberChar(ch) ==
    (ch >= 48 /\ ch <= 57) \/ ch = Ch.dot \/ ch = Ch.minus \/ ch = Ch.e
        \/ ch = Ch.E \/ ch = Ch.plus

RECURSIVE parseRawNumberFrom(_, _)
parseRawNumberFrom(str, i) ==
    IF i >= Len(str)
    THEN [ns |-> str, tail |-> <<>>, err |-> NoErr]
    ELSE IF isNumberChar(str[i + 1])
    THEN parseRawNumberFrom(str, i + 1)
    ELSE IF i = 0 \/ (i = 1 /\ (str[1] = Ch.minus \/ str[1] = Ch.plus))
    THEN IF Len(str) - i >= 3
            /\ (EqualFold(SubSeq(str, i + 1, i + 3), StrInf)
                \/ EqualFold(SubSeq(str, i + 1, i + 3), StrNan))
         THEN [ns |-> Take(str, i + 3), tail |-> Drop(str, i + 3), err |-> NoErr]
         ELSE [ns |-> <<>>, tail |-> str,
               err |-> Errorf("unexpected char: %q", Take(str, 1))]
    ELSE [ns |-> Take(str, i), tail |-> Drop(str, i), err |-> NoErr]

parseRawNumber(str) == parseRawNumberFrom(str, 0)

(***************************************************************************)
(* The recursive-descent parser.  Each function returns the node (a         *)
(* pointer), the unparsed tail, the error and the cache as it left it.      *)
(*                                                                          *)
(* maxDepth is 300 in the code (src/jsonpart.go:138).  The parser only      *)
(* compares the nesting level with it, so the model scales it down: a text  *)
(* nested 301 deep needs a recursion TLC's stack cannot hold.               *)
(***************************************************************************)
maxDepth == 3

PRes(v, tail, e, c) == [v |-> v, tail |-> tail, err |-> e, c |-> c]

\* v := c.getValue(); v.t = t; v.s = str
newLeaf(c, t, str) ==
    LET c1 == getValue(c) IN
    [c1 EXCEPT ![Len(c1)] = [@ EXCEPT !.t = t, !.s = str]]

\* Object.getKV: one more key/value slot at the end of o.kvs.
getKV(o) == [o EXCEPT !.kvs = Append(@, [k |-> <<>>, v |-> NilPtr])]

\* e named x in F: e is evaluated once, like the local variable it models.
Bind(e, F(_)) == CHOOSE y \in {F(x) : x \in {e}} : TRUE

RECURSIVE parseValue(_, _, _)
RECURSIVE parseArrayLoop(_, _, _, _)
RECURSIVE parseObjectLoop(_, _, _, _)

\* parseArrayLoop that lets ']' follow a ','.
parseArrayLoopTrailingComma(a, str, c, depth) ==
    Bind(skipWS(str), LAMBDA s0 :
    IF Len(c[a].a) > 0 /\ Len(s0) > 0 /\ s0[1] = Ch.rbrack
    THEN PRes(a, Drop(s0, 1), NoErr, c)
    ELSE
    Bind(parseValue(s0, c, depth), LAMBDA r :
    IF r.err # NoErr
    THEN PRes(NilPtr, r.tail, Wrap("cannot parse array value: ", r.err), r.c)
    ELSE Bind([c |-> [r.c EXCEPT ![a].a = Append(@, r.v)], s |-> skipWS(r.tail)],
              LAMBDA m :
         IF Len(m.s) = 0
         THEN PRes(NilPtr, m.s, Errorf("unexpected end of array", <<>>), m.c)
         ELSE IF m.s[1] = Ch.comma
         THEN parseArrayLoop(a, Drop(m.s, 1), m.c, depth)
         ELSE IF m.s[1] = Ch.rbrack
         THEN PRes(a, Drop(m.s, 1), NoErr, m.c)
         ELSE PRes(NilPtr, m.s, Errorf("missing ',' after array value", <<>>), m.c))))

\* The for loop of parseArray; a is the array node being filled.
parseArrayLoop(a, str, c, depth) ==
    Bind(parseValue(skipWS(str), c, depth), LAMBDA r :
    IF r.err # NoErr
    THEN PRes(NilPtr, r.tail, Wrap("cannot parse array value: ", r.err), r.c)
    ELSE Bind([c |-> [r.c EXCEPT ![a].a = Append(@, r.v)], s |-> skipWS(r.tail)],
              LAMBDA m :
         IF Len(m.s) = 0
         THEN PRes(NilPtr, m.s, Errorf("unexpected end of array", <<>>), m.c)
         ELSE IF m.s[1] = Ch.comma
         THEN parseArrayLoop(a, Drop(m.s, 1), m.c, depth)
         ELSE IF m.s[1] = Ch.rbrack
         THEN PRes(a, Drop(m.s, 1), NoErr, m.c)
         ELSE PRes(NilPtr, m.s, Errorf("missing ',' after array value", <<>>), m.c)))

parseArray(str, c, depth) ==
    Bind(skipWS(str), LAMBDA s0 :
    IF Len(s0) = 0
    THEN PRes(NilPtr, s0, Errorf("missing ']'", <<>>), c)
    ELSE Bind(newLeaf(c, typeArray, <<>>), LAMBDA c1 :
         IF s0[1] = Ch.rbrack
         THEN PRes(Len(c1), Drop(s0, 1), NoErr, c1)
         ELSE parseArrayLoop(Len(c1), s0, c1, depth)))

\* The value part of one iteration of parseObject's loop: i is the slot of
\* the pair whose key was just stored.
parseObjectValue(o, i, str, c, depth) ==
    Bind(parseValue(skipWS(str), c, depth), LAMBDA r :
    Bind([c |-> [r.c EXCEPT ![o].o.kvs[i].v = r.v], s |-> skipWS(r.tail)],
         LAMBDA m :
    IF r.err # NoErr
    THEN PRes(NilPtr, r.tail, Wrap("cannot parse object value: ", r.err), m.c)
    ELSE IF Len(m.s) = 0
    THEN PRes(NilPtr, m.s, Errorf("unexpected end of object", <<>>), m.c)
    ELSE IF m.s[1] = Ch.comma
    THEN parseObjectLoop(o, Drop(m.s, 1), m.c, depth)
    ELSE IF m.s[1] = Ch.rbrace
    THEN PRes(o, Drop(m.s, 1), NoErr, m.c)
    ELSE PRes(NilPtr, m.s, Errorf("missing ',' after object value", <<>>), m.c)))

\* The for loop of parseObject; o is the object node being filled.
parseObjectLoop(o, str, c, depth) ==
    Bind([c |-> [c EXCEPT ![o].o = getKV(@)], s |-> skipWS(str)], LAMBDA m0 :
    IF Len(m0.s) = 0 \/ m0.s[1] # Ch.quote
    THEN PRes(NilPtr, m0.s,
              Errorf("cannot find opening '\"\" for object key", <<>>), m0.c)
    ELSE Bind(parseRawKey(Drop(m0.s, 1)), LAMBDA rk :
         Bind([m0.c EXCEPT ![o].o.kvs[Len(m0.c[o].o.kvs)].k = rk.ss], LAMBDA c1 :
         IF rk.err # NoErr
         THEN PRes(NilPtr, rk.tail, Wrap("cannot parse object key: ", rk.err), c1)
         ELSE Bind(skipWS(rk.tail), LAMBDA s1 :
              IF Len(s1) = 0 \/ s1[1] # Ch.colon
              THEN PRes(NilPtr, s1, Errorf("missing ':' after object key", <<>>), c1)
              ELSE parseObjectValue(o, Len(c1[o].o.kvs), Drop(s1, 1), c1, depth)))))

parseObject(str, c, depth) ==
    Bind(skipWS(str), LAMBDA s0 :
    IF Len(s0) = 0
    THEN PRes(NilPtr, s0, Errorf("missing '}'", <<>>), c)
    ELSE Bind(newLeaf(c, typeObject, <<>>), LAMBDA c1 :
         IF s0[1] = Ch.rbrace
         THEN PRes(Len(c1), Drop(s0, 1), NoErr, c1)
         ELSE parseObjectLoop(Len(c1), s0, c1, depth)))

\* parseValue's handling of what parseObject/parseArray returned:
\* if err != nil { return nil, tail, fmt.Errorf(msg, err) }; return v, tail, nil
checkedDropsError(r, msg) == [r EXCEPT !.err = NoErr]

checked(r, msg) ==
    IF r.err # NoErr
    THEN PRes(NilPtr, r.tail, Wrap(msg, r.err), r.c)
    ELSE r

depthExceededOffByOne(depth) == depth + 1 >= maxDepth

\* The depth test of parseValue (depth++; if depth > maxDepth): depth is the
\* caller's, the value's is one more.
depthExceeded(depth) == depth + 1 > maxDepth

\* v := c.getValue(); v.t = t; v.s = str; return v, tail, nil
leafResult(c, t, str, tail) ==
    Bind(newLeaf(c, t, str), LAMBDA c1 : PRes(Len(c1), tail, NoErr, c1))

parseValue(str, c, depth0) ==
    IF Len(str) = 0
    THEN PRes(NilPtr, str, Errorf("cannot parse empty string", <<>>), c)
    ELSE IF depthExceeded(depth0)
    THEN PRes(NilPtr, str, Errorf("too big depth for the nested JSON; it exceeds %d", <<>>), c)
    ELSE
    CASE str[1] = Ch.lbrace ->
            Bind(parseObject(Drop(str, 1), c, depth0 + 1), LAMBDA r :
                 checked(r, "cannot parse object: "))
      [] str[1] = Ch.lbrack ->
            Bind(parseArray(Drop(str, 1), c, depth0 + 1), LAMBDA r :
                 checked(r, "cannot parse array: "))
      [] str[1] = Ch.quote ->
            Bind(parseRawString(Drop(str, 1)), LAMBDA r :
            IF r.err # NoErr
            THEN PRes(NilPtr, r.tail, Wrap("cannot parse string: ", r.err), c)
            ELSE leafResult(c, typeRawString, r.ss, r.tail))
      [] str[1] = Ch.t ->
            IF ~HasPrefix(str, StrTrue)
            THEN PRes(NilPtr, str, Errorf("unexpected value found: %q", str), c)
            ELSE PRes(valueTrue, Drop(str, Len(StrTrue)), NoErr, c)
      [] str[1] = Ch.f ->
            IF ~HasPrefix(str, StrFalse)
            THEN PRes(NilPtr, str, Errorf("unexpected value found: %q", str), c)
            ELSE PRes(valueFalse, Drop(str, Len(StrFalse)), NoErr, c)
      [] str[1] = Ch.n ->
            IF ~HasPrefix(str, StrNull)
            THEN IF Len(str) >= 3 /\ EqualFold(Take(str, 3), StrNan)
                 THEN leafResult(c, typeNumber, Take(str, 3), Drop(str, 3))
                 ELSE PRes(NilPtr, str, Errorf("unexpected value found: %q", str), c)
            ELSE PRes(valueNull, Drop(str, Len(StrNull)), NoErr, c)
      [] OTHER ->
            Bind(parseRawNumber(str), LAMBDA r :
            IF r.err # NoErr
            THEN PRes(NilPtr, r.tail, Wrap("cannot parse number: ", r.err), c)
            ELSE leafResult(c, typeNumber, r.ns, r.tail))

\* parser.parse that refuses text after the first value.
parseRejectsTail(str) ==
    Bind(parseValue(skipWS(str), <<>>, 0), LAMBDA r :
    IF r.err # NoErr \/ r.tail # <<>>
    THEN [v |-> NilPtr,
          err |-> Wrap("cannot parse JSON: ", r.err)
                    \o Errorf("; unparsed tail: %q", startEndString(r.tail)),
          c |-> r.c, panic |-> FALSE]
    ELSE [v |-> r.v, err |-> NoErr, c |-> r.c, panic |-> FALSE])

\* parser.parse on a fresh parser: the root (or nil), the error (or none) and
\* the cache.
parse(str) ==
    Bind(parseValue(skipWS(str), <<>>, 0), LAMBDA r :
    IF r.err # NoErr
    THEN [v |-> NilPtr,
          err |-> Wrap("cannot parse JSON: ", r.err)
                    \o Errorf("; unparsed tail: %q", startEndString(r.tail)),
          c |-> r.c, panic |-> FALSE]
    ELSE [v |-> r.v, err |-> NoErr, c |-> r.c, panic |-> FALSE])

\* v := s[len(partialKey[0])+2:], for s starting at the quoted key.
afterKeyOffByOne(str, key) == Drop(str, Len(key) + 1)

afterKey(str, key) == Drop(str, Len(key) + 2)

\* Parse(s, partialKey...): partialKey is the variadic list.  An index out of
\* range (v[0] on an empty v) is a run-time panic.
Parse(str, keys) ==
    IF Len(keys) > 0 /\ Len(keys[1]) > 0
    THEN LET lit == <<Ch.quote>> \o keys[1] \o <<Ch.quote>>
             i == Index(str, lit) IN
         IF i = -1
         THEN [v |-> NilPtr,
               err |-> Errorf("cannot find partialKey: \"%s\"; JSON: %q",
                              keys[1] \o startEndString(str)),
               c |-> <<>>, panic |-> FALSE]
         ELSE LET s1 == Drop(str, i) IN
              Bind(skipWS(afterKey(s1, keys[1])), LAMBDA v :
              IF Len(v) = 0
              THEN [v |-> NilPtr, err |-> NoErr, c |-> <<>>, panic |-> TRUE]
              ELSE IF v[1] # Ch.colon
              THEN [v |-> NilPtr,
                    err |-> Errorf("invalid partialKey: \"%s\"; JSON: %q",
                                   keys[1] \o startEndString(s1)),
                    c |-> <<>>, panic |-> FALSE]
              ELSE parse(Drop(v, 1)))
    ELSE parse(str)

(***************************************************************************)
(* Lazy unescaping                                                          *)
(***************************************************************************)
isHexDigit(ch) ==
    (ch >= 48 /\ ch <= 57) \/ (ch >= 97 /\ ch <= 102) \/ (ch >= 65 /\ ch <= 70)

hexDigit(ch) ==
    IF ch <= 57 THEN ch - 48 ELSE IF ch >= 97 THEN ch - 87 ELSE ch - 55

\* strconv.ParseUint(xs, 16, 16) on four bytes: -1 for an error.
parseHex4(xs) ==
    IF \A i \in 1..4 : isHexDigit(xs[i])
    THEN hexDigit(xs[1]) * 4096 + hexDigit(xs[2]) * 256
            + hexDigit(xs[3]) * 16 + hexDigit(xs[4])
    ELSE -1

\* utf16.IsSurrogate
IsSurrogate(x) == x >= 55296 /\ x < 57344

\* utf16.DecodeRune: U+FFFD unless r1 is a high and r2 a low surrogate.
DecodeRune(r1, r2) ==
    IF r1 >= 55296 /\ r1 < 56320 /\ r2 >= 56320 /\ r2 < 57344
    THEN (r1 - 55296) * 1024 + (r2 - 56320) + 65536
    ELSE 65533

\* string(rune(x)): the UTF-8 encoding (U+FFFD for a surrogate).
utf8(x) ==
    IF x < 128 THEN <<x>>
    ELSE IF x < 2048 THEN <<192 + (x \div 64), 128 + (x % 64)>>
    ELSE IF IsSurrogate(x) THEN <<239, 191, 189>>
    ELSE IF x < 65536
    THEN <<224 + (x \div 4096), 128 + ((x \div 64) % 64), 128 + (x % 64)>>
    ELSE <<240 + (x \div 262144), 128 + ((x \div 4096) % 64),
           128 + ((x \div 64) % 64), 128 + (x % 64)>>

StrBackslashU == <<92, 117>>

\* The case 'u' of the switch: b is the output so far, str what follows the
\* 'u'.  Gives the output and the input left.
unescapeU(b, str) ==
    IF Len(str) < 4
    THEN [b |-> b \o StrBackslashU, s |-> str]
    ELSE LET xs == Take(str, 4)
             x == parseHex4(xs)
             s4 == Drop(str, 4) IN
         IF x < 0
         THEN [b |-> b \o StrBackslashU, s |-> str]
         ELSE IF ~IsSurrogate(x)
         THEN [b |-> b \o utf8(x), s |-> s4]
         ELSE IF Len(s4) < 6 \/ s4[1] # Ch.backslash \/ s4[2] # Ch.u
         THEN [b |-> b \o StrBackslashU \o xs, s |-> s4]
         ELSE LET x1 == parseHex4(SubSeq(s4, 3, 6)) IN
              IF x1 < 0
              THEN [b |-> b \o StrBackslashU \o xs, s |-> s4]
              ELSE [b |-> b \o utf8(DecodeRune(x, x1)), s |-> Drop(s4, 6)]

\* The switch on the byte that follows a backslash.
unescapeOne(b, ch, str) ==
    CASE ch = Ch.quote -> [b |-> Append(b, Ch.quote), s |-> str]
      [] ch = Ch.backslash -> [b |-> Append(b, Ch.backslash), s |-> str]
      [] ch = Ch.slash -> [b |-> Append(b, Ch.slash), s |-> str]
      [] ch = Ch.b -> [b |-> Append(b, Ch.bs), s |-> str]
      [] ch = Ch.f -> [b |-> Append(b, Ch.ff), s |-> str]
      [] ch = Ch.n -> [b |-> Append(b, Ch.lf), s |-> str]
      [] ch = Ch.r -> [b |-> Append(b, Ch.cr), s |-> str]
      [] ch = Ch.t -> [b |-> Append(b, Ch.tab), s |-> str]
      [] ch = Ch.u -> unescapeU(b, str)
      [] OTHER -> [b |-> b \o <<Ch.backslash, ch>>, s |-> str]

\* The for loop: str is what follows a backslash already consumed.
RECURSIVE unescapeLoop(_, _)
unescapeLoop(b, str) ==
    IF Len(str) = 0
    THEN b
    ELSE Bind(unescapeOne(b, str[1], Drop(str, 1)), LAMBDA m :
         Bind(IndexByte(m.s, Ch.backslash), LAMBDA n :
         IF n < 0
         THEN m.b \o m.s
         ELSE unescapeLoop(m.b \o Take(m.s, n), Drop(m.s, n + 1))))

unescapeStringBestEffort(str) ==
    Bind(IndexByte(str, Ch.backslash), LAMBDA n :
    IF n < 0
    THEN str
    ELSE unescapeLoop(Take(str, n), Drop(str, n + 1)))

(***************************************************************************)
(* Numeric lexer.  An integer is a sign and its decimal digits without      *)
(* leading zeros (<<>> for 0); a float64 is kept as the exact decimal       *)
(* mag * 10^exp10 the text denotes (its rounding is not modelled), or as    *)
(* inf or nan.                                                              *)
(***************************************************************************)
isDigit(ch) == ch >= 48 /\ ch <= 57

\* The length of the run of digits of str that starts at 0-based index i.
RECURSIVE digitRun(_, _)
digitRun(str, i) ==
    IF i < Len(str) /\ isDigit(str[i + 1]) THEN 1 + digitRun(str, i + 1) ELSE 0

\* d = d*10 + digit over the digits of str: the decimal digits of d.
RECURSIVE stripZeros(_)
stripZeros(ds) ==
    IF Len(ds) > 0 /\ ds[1] = Ch.zero THEN stripZeros(Tail(ds)) ELSE ds

IntVal(neg, mag) == [neg |-> neg /\ mag # <<>>, mag |-> mag]
IntZero == IntVal(FALSE, <<>>)

\* The order of two magnitudes.
RECURSIVE magLess(_, _)
magLess(x, y) ==
    IF Len(x) # Len(y) THEN Len(x) < Len(y)
    ELSE IF Len(x) = 0 THEN FALSE
    ELSE IF x[1] # y[1] THEN x[1] < y[1]
    ELSE magLess(Tail(x), Tail(y))

\* 9223372036854775807, 9223372036854775808 and 18446744073709551615.
MaxInt64Mag == <<57,50,50,51,51,55,50,48,51,54,56,53,52,55,55,53,56,48,55>>
MinInt64Mag == <<57,50,50,51,51,55,50,48,51,54,56,53,52,55,55,53,56,48,56>>
MaxUint64Mag == <<49,56,52,52,54,55,52,52,48,55,51,55,48,57,53,53,49,54,49,53>>

NumRes(ok, val) == [ok |-> ok, val |-> val]

\* strconv.ParseUint(s, 10, 64)
strconvParseUint(str) ==
    IF Len(str) = 0 \/ digitRun(str, 0) # Len(str)
    THEN NumRes(FALSE, IntZero)
    ELSE IF magLess(MaxUint64Mag, stripZeros(str))
    THEN NumRes(FALSE, IntZero)
    ELSE NumRes(TRUE, IntVal(FALSE, stripZeros(str)))

\* strconv.ParseInt(s, 10, 64)
strconvParseInt(str) ==
    LET signed == Len(str) > 0 /\ (str[1] = Ch.minus \/ str[1] = Ch.plus)
        neg == Len(str) > 0 /\ str[1] = Ch.minus
        ds == IF signed THEN Drop(str, 1) ELSE str
        mag == stripZeros(ds) IN
    IF Len(ds) = 0 \/ digitRun(ds, 0) # Len(ds)
    THEN NumRes(FALSE, IntZero)
    ELSE IF magLess(IF neg THEN MinInt64Mag ELSE MaxInt64Mag, mag)
    THEN NumRes(FALSE, IntZero)
    ELSE NumRes(TRUE, IntVal(neg, mag))

\* parseInt64: ok is err == nil.
parseInt64(str) ==
    IF Len(str) = 0 THEN NumRes(FALSE, IntZero)
    ELSE LET minus == str[1] = Ch.minus
             j == IF minus THEN 1 ELSE 0
             i == j + digitRun(str, j) IN
         IF j >= Len(str) THEN NumRes(FALSE, IntZero)
         ELSE IF i > 18 THEN strconvParseInt(str)
         ELSE IF i <= j THEN NumRes(FALSE, IntZero)
         ELSE IF i < Len(str) THEN NumRes(FALSE, IntZero)
         ELSE NumRes(TRUE, IntVal(minus, stripZeros(SubSeq(str, j + 1, i))))

\* parseUint64: ok is err == nil.
parseUint64(str) ==
    IF Len(str) = 0 THEN NumRes(FALSE, IntZero)
    ELSE LET i == digitRun(str, 0) IN
         IF i > 18 THEN strconvParseUint(str)
         ELSE IF i <= 0 THEN NumRes(FALSE, IntZero)
         ELSE IF i < Len(str) THEN NumRes(FALSE, IntZero)
         ELSE NumRes(TRUE, IntVal(FALSE, stripZeros(Take(str, i))))

\* The best-effort variants run the same scan and return 0 where the strict
\* ones return an error.
parseInt64BestEffort(str) ==
    IF parseInt64(str).ok THEN parseInt64(str).val ELSE IntZero

parseUint64BestEffort(str) ==
    IF parseUint64(str).ok THEN parseUint64(str).val ELSE IntZero

FloatNum(neg, mag, exp10) == [kind |-> "num", neg |-> neg, mag |-> mag, exp10 |-> exp10]
FloatInf(neg) == [kind |-> "inf", neg |-> neg, mag |-> <<>>, exp10 |-> 0]
FloatNaN == [kind |-> "nan", neg |-> FALSE, mag |-> <<>>, exp10 |-> 0]
FloatZero == FloatNum(FALSE, <<>>, 0)

\* exp = exp*10 + digit over the digits, stopping above 300 (the code falls
\* back there): the value, or 301.
RECURSIVE expValue(_, _)
expValue(ds, acc) ==
    IF Len(ds) = 0 \/ acc > 300 THEN (IF acc > 300 THEN 301 ELSE acc)
    ELSE expValue(Tail(ds), acc * 10 + (ds[1] - 48))

\* strconv.ParseFloat(s, 64) on the bytes a raw number can hold (signs,
\* digits, '.', 'e', 'E' and the letters of inf and nan): ok is false for a
\* syntax error; a value out of range is an infinity.
strconvParseFloat(str) ==
    LET signed == Len(str) > 0 /\ (str[1] = Ch.minus \/ str[1] = Ch.plus)
        neg == Len(str) > 0 /\ str[1] = Ch.minus
        body == IF signed THEN Drop(str, 1) ELSE str
        n1 == digitRun(body, 0)
        dot == n1 < Len(body) /\ body[n1 + 1] = Ch.dot
        n2 == IF dot THEN digitRun(body, n1 + 1) ELSE 0
        m == n1 + (IF dot THEN 1 ELSE 0) + n2
        hasExp == m < Len(body) /\ (body[m + 1] = Ch.e \/ body[m + 1] = Ch.E)
        esign == hasExp /\ m + 1 < Len(body)
                    /\ (body[m + 2] = Ch.minus \/ body[m + 2] = Ch.plus)
        e0 == m + 1 + (IF esign THEN 1 ELSE 0)
        n3 == IF hasExp THEN digitRun(body, e0) ELSE 0
        ex == expValue(SubSeq(body, e0 + 1, e0 + n3), 0)
        mag == stripZeros(SubSeq(body, 1, n1) \o SubSeq(body, n1 + 2, n1 + 1 + n2))
        exp10 == (IF esign /\ body[m + 2] = Ch.minus THEN 0 - ex ELSE ex) - n2 IN
    IF EqualFold(body, StrInf) \/ EqualFold(body, StrInfinity)
    THEN NumRes(TRUE, FloatInf(neg))
    ELSE IF ~signed /\ EqualFold(body, StrNan)
    THEN NumRes(TRUE, FloatNaN)
    ELSE IF n1 + n2 = 0 THEN NumRes(FALSE, FloatZero)
    ELSE IF hasExp /\ (n3 = 0 \/ e0 + n3 # Len(body)) THEN NumRes(FALSE, FloatZero)
    ELSE IF ~hasExp /\ m # Len(body) THEN NumRes(FALSE, FloatZero)
    ELSE IF mag # <<>> /\ Len(mag) + exp10 > 309 THEN NumRes(TRUE, FloatInf(neg))
    ELSE NumRes(TRUE, FloatNum(neg, mag, exp10))

\* The exponent part of parse: str[i] is 'e' or 'E'; j is where the number
\* started and f the value read so far.
parseFloatExponent(str, i, minus, f) ==
    LET esign == i + 1 < Len(str)
                    /\ (str[i + 2] = Ch.minus \/ str[i + 2] = Ch.plus)
        e0 == i + 1 + (IF esign THEN 1 ELSE 0)
        n3 == digitRun(str, e0)
        ex == expValue(SubSeq(str, e0 + 1, e0 + n3), 0) IN
    IF i + 1 >= Len(str) THEN NumRes(FALSE, FloatZero)
    ELSE IF e0 >= Len(str) THEN NumRes(FALSE, FloatZero)
    ELSE IF ex > 300 THEN strconvParseFloat(str)
    ELSE IF n3 = 0 THEN NumRes(FALSE, FloatZero)
    ELSE IF e0 + n3 >= Len(str)
    THEN NumRes(TRUE, FloatNum(minus, f.mag,
                    f.exp10 + (IF esign /\ str[i + 2] = Ch.minus THEN 0 - ex ELSE ex)))
    ELSE NumRes(FALSE, FloatZero)

\* len(float64pow10)
float64pow10Len == 17

\* parse (the strict float64 parser): ok is err == nil.
parseFloat64(str) ==
    IF Len(str) = 0 THEN NumRes(FALSE, FloatZero)
    ELSE
    LET minus == str[1] = Ch.minus
        j == IF minus THEN 1 ELSE 0
        n1 == digitRun(str, j)
        i == j + n1
        ss0 == Drop(str, i)
        ss == IF HasPrefix(ss0, <<Ch.plus>>) THEN Drop(ss0, 1) ELSE ss0
        d1 == stripZeros(SubSeq(str, j + 1, i))
        k == i + 1
        n2 == digitRun(str, k)
        i2 == k + n2
        d2 == stripZeros(SubSeq(str, j + 1, i) \o SubSeq(str, k + 1, i2)) IN
    IF j >= Len(str) THEN NumRes(FALSE, FloatZero)
    ELSE IF str[j + 1] = Ch.dot /\ (j + 1 >= Len(str) \/ ~isDigit(str[j + 2]))
    THEN NumRes(FALSE, FloatZero)
    ELSE IF i > 18 THEN strconvParseFloat(str)
    ELSE IF i <= j /\ str[i + 1] # Ch.dot
    THEN IF EqualFold(ss, StrInf) \/ EqualFold(ss, StrInfinity)
         THEN NumRes(TRUE, FloatInf(minus))
         ELSE IF EqualFold(ss, StrNan) THEN NumRes(TRUE, FloatNaN)
         ELSE NumRes(FALSE, FloatZero)
    ELSE IF i >= Len(str) THEN NumRes(TRUE, FloatNum(minus, d1, 0))
    ELSE IF str[i + 1] = Ch.dot
    THEN IF k >= Len(str) THEN NumRes(TRUE, FloatNum(FALSE, d1, 0))
         ELSE IF n2 > 0 /\ i2 - j >= float64pow10Len THEN strconvParseFloat(str)
         ELSE IF i2 >= Len(str) THEN NumRes(TRUE, FloatNum(minus, d2, 0 - n2))
         ELSE IF str[i2 + 1] = Ch.e \/ str[i2 + 1] = Ch.E
         THEN parseFloatExponent(str, i2, minus, FloatNum(minus, d2, 0 - n2))
         ELSE NumRes(FALSE, FloatZero)
    ELSE IF str[i + 1] = Ch.e \/ str[i + 1] = Ch.E
    THEN parseFloatExponent(str, i, minus, FloatNum(minus, d1, 0))
    ELSE NumRes(FALSE, FloatZero)

\* parseBestEffort: the same scan, 0 where parse returns an error.
parseBestEffort(str) ==
    IF parseFloat64(str).ok THEN parseFloat64(str).val ELSE FloatZero

(***************************************************************************)
(* The value tree: lookups.  A lookup may unescape keys and strings in      *)
(* place, so each takes the cache and returns it with its result.  A nil    *)
(* slice is the empty sequence.                                             *)
(***************************************************************************)
\* The index of the first pair of kvs whose key is key, or 0.
kvIndex(kvs, key) ==
    IF \E i \in 1..Len(kvs) : kvs[i].k = key
    THEN CHOOSE i \in 1..Len(kvs) :
            kvs[i].k = key /\ \A j \in 1..(i - 1) : kvs[j].k # key
    ELSE 0

unescapeKeys(o) ==
    IF o.keysUnescaped
    THEN o
    ELSE [kvs |-> [i \in 1..Len(o.kvs) |->
                        [o.kvs[i] EXCEPT !.k = unescapeStringBestEffort(@)]],
          keysUnescaped |-> TRUE]

Ret(val, c) == [val |-> val, c |-> c]

\* o.Get(key) for the object of node p.
ObjectGet(c, p, key) ==
    Bind(kvIndex(c[p].o.kvs, key), LAMBDA i :
    IF ~c[p].o.keysUnescaped /\ IndexByte(key, Ch.backslash) < 0 /\ i > 0
    THEN Ret(c[p].o.kvs[i].v, c)
    ELSE Bind(unescapeKeys(c[p].o), LAMBDA o2 :
         Bind(kvIndex(o2.kvs, key), LAMBDA j :
         Ret(IF j > 0 THEN o2.kvs[j].v ELSE NilPtr, [c EXCEPT ![p].o = o2]))))

\* o.Visit(f) for the object of node p: the keys f is called with, in order.
ObjectVisit(c, p) ==
    Bind(unescapeKeys(c[p].o), LAMBDA o2 :
    Ret([i \in 1..Len(o2.kvs) |-> o2.kvs[i].k], [c EXCEPT ![p].o = o2]))

\* strconv.Atoi, for a 64-bit int.
strconvAtoi(key) == strconvParseInt(key)

\* The number a magnitude denotes.
RECURSIVE magValue(_, _)
magValue(mag, acc) ==
    IF Len(mag) = 0 THEN acc ELSE magValue(Tail(mag), acc * 10 + (mag[1] - 48))

\* The magnitude of a natural number.
RECURSIVE natMag(_)
natMag(n) == IF n = 0 THEN <<>> ELSE natMag(n \div 10) \o <<48 + (n % 10)>>

RECURSIVE ValueGetKindBlind(_, _, _)
ValueGetKindBlind(c, v, keys) ==
    IF v = NilPtr THEN Ret(NilPtr, c)
    ELSE IF Len(keys) = 0 THEN Ret(v, c)
    ELSE IF Deref(c, v).t = typeObject
    THEN Bind(ObjectGet(c, v, keys[1]), LAMBDA r :
         IF r.val = NilPtr THEN r ELSE ValueGetKindBlind(r.c, r.val, Tail(keys)))
    ELSE IF Deref(c, v).t = typeArray
    THEN Bind(strconvAtoi(keys[1]), LAMBDA n :
         IF ~n.ok \/ n.val.neg \/ ~magLess(n.val.mag, natMag(Len(Deref(c, v).a)))
         THEN Ret(NilPtr, c)
         ELSE ValueGetKindBlind(c, Deref(c, v).a[magValue(n.val.mag, 0) + 1], Tail(keys)))
    ELSE ValueGetKindBlind(c, v, Tail(keys))

\* v.Get(keys...)
RECURSIVE ValueGet(_, _, _)
ValueGet(c, v, keys) ==
    IF v = NilPtr THEN Ret(NilPtr, c)
    ELSE IF Len(keys) = 0 THEN Ret(v, c)
    ELSE IF Deref(c, v).t = typeObject
    THEN Bind(ObjectGet(c, v, keys[1]), LAMBDA r :
         IF r.val = NilPtr THEN r ELSE ValueGet(r.c, r.val, Tail(keys)))
    ELSE IF Deref(c, v).t = typeArray
    THEN Bind(strconvAtoi(keys[1]), LAMBDA n :
         IF ~n.ok \/ n.val.neg \/ ~magLess(n.val.mag, natMag(Len(Deref(c, v).a)))
         THEN Ret(NilPtr, c)
         ELSE ValueGet(c, Deref(c, v).a[magValue(n.val.mag, 0) + 1], Tail(keys)))
    ELSE Ret(NilPtr, c)

\* vType that unescapes a string on every typed read.
vTypeUnescapesAgain(c, v) ==
    IF v > 0 /\ c[v].t \in {typeRawString, typeString}
    THEN [t |-> typeString,
          c |-> [c EXCEPT ![v].s = unescapeStringBestEffort(@), ![v].t = typeString]]
    ELSE [t |-> Deref(c, v).t, c |-> c]

\* v.vType(): a raw string is unescaped in place on its first typed read.
vType(c, v) ==
    IF v > 0 /\ c[v].t = typeRawString
    THEN [t |-> typeString,
          c |-> [c EXCEPT ![v].s = unescapeStringBestEffort(@), ![v].t = typeString]]
    ELSE [t |-> Deref(c, v).t, c |-> c]

\* vType.String()
TypeString(t) ==
    CASE t = typeObject -> "object"
      [] t = typeArray -> "array"
      [] t = typeString -> "string"
      [] t = typeNumber -> "number"
      [] t = typeTrue -> "true"
      [] t = typeFalse -> "false"
      [] t = typeNull -> "null"
      [] OTHER -> "panic"

(***************************************************************************)
(* The value tree: typed reads.  int and uint are 64 bits wide.  A          *)
(* permissive getter returns its value and the cache; a strict accessor     *)
(* returns a value, an error, the cache, and whether it panicked: its       *)
(* receiver is dereferenced (v.t) whatever it is, and that of nil panics.   *)
(***************************************************************************)
\* int64(int(n)) == n and uint64(uint(n)) == n
fitsInt(n) == ~magLess(IF n.neg THEN MinInt64Mag ELSE MaxInt64Mag, n.mag)
fitsUint(n) == ~n.neg /\ ~magLess(MaxUint64Mag, n.mag)

GetObject(c, v, ks) ==
    Bind(ValueGet(c, v, ks), LAMBDA r :
    IF r.val = NilPtr \/ Deref(r.c, r.val).t # typeObject
    THEN Ret(NilPtr, r.c)
    ELSE Ret(r.val, r.c))

GetArray(c, v, ks) ==
    Bind(ValueGet(c, v, ks), LAMBDA r :
    IF r.val = NilPtr \/ Deref(r.c, r.val).t # typeArray
    THEN Ret(<<>>, r.c)
    ELSE Ret(Deref(r.c, r.val).a, r.c))

\* The shape the number and string getters share: r := v.Get(keys...);
\* if r == nil || r.vType() != t { return zero }; return the conversion of r.s
typedRead(c, v, ks, t, zero) ==
    Bind(ValueGet(c, v, ks), LAMBDA r :
    IF r.val = NilPtr
    THEN [ok |-> FALSE, str |-> <<>>, val |-> zero, c |-> r.c]
    ELSE Bind(vType(r.c, r.val), LAMBDA ty :
         IF ty.t # t
         THEN [ok |-> FALSE, str |-> <<>>, val |-> zero, c |-> ty.c]
         ELSE [ok |-> TRUE, str |-> Deref(ty.c, r.val).s, val |-> zero, c |-> ty.c]))

GetFloat64(c, v, ks) ==
    Bind(typedRead(c, v, ks, typeNumber, FloatZero), LAMBDA r :
    IF r.ok THEN Ret(parseBestEffort(r.str), r.c) ELSE Ret(r.val, r.c))

GetInt(c, v, ks) ==
    Bind(typedRead(c, v, ks, typeNumber, IntZero), LAMBDA r :
    IF ~r.ok THEN Ret(r.val, r.c)
    ELSE Bind(parseInt64BestEffort(r.str), LAMBDA n :
         IF ~fitsInt(n) THEN Ret(IntZero, r.c) ELSE Ret(n, r.c)))

GetUint(c, v, ks) ==
    Bind(typedRead(c, v, ks, typeNumber, IntZero), LAMBDA r :
    IF ~r.ok THEN Ret(r.val, r.c)
    ELSE Bind(parseUint64BestEffort(r.str), LAMBDA n :
         IF ~fitsUint(n) THEN Ret(IntZero, r.c) ELSE Ret(n, r.c)))

\* GetInt64 with the test of the node's kind left out.
GetInt64AnyKind(c, v, ks) ==
    Bind(ValueGet(c, v, ks), LAMBDA r :
    IF r.val = NilPtr THEN Ret(IntZero, r.c)
    ELSE Ret(parseInt64BestEffort(Deref(r.c, r.val).s), r.c))

GetInt64(c, v, ks) ==
    Bind(typedRead(c, v, ks, typeNumber, IntZero), LAMBDA r :
    IF r.ok THEN Ret(parseInt64BestEffort(r.str), r.c) ELSE Ret(r.val, r.c))

GetUint64(c, v, ks) ==
    Bind(typedRead(c, v, ks, typeNumber, IntZero), LAMBDA r :
    IF r.ok THEN Ret(parseUint64BestEffort(r.str), r.c) ELSE Ret(r.val, r.c))

GetString(c, v, ks) ==
    Bind(typedRead(c, v, ks, typeString, <<>>), LAMBDA r :
    IF r.ok THEN Ret(r.str, r.c) ELSE Ret(r.val, r.c))

GetStringBytes(c, v, ks) ==
    Bind(typedRead(c, v, ks, typeString, <<>>), LAMBDA r :
    IF r.ok THEN Ret(r.str, r.c) ELSE Ret(r.val, r.c))

GetBool(c, v, ks) ==
    Bind(ValueGet(c, v, ks), LAMBDA r :
    IF r.val # NilPtr /\ Deref(r.c, r.val).t = typeTrue
    THEN Ret(TRUE, r.c)
    ELSE Ret(FALSE, r.c))

SRet(val, e, c) == [val |-> val, err |-> e, c |-> c, panic |-> FALSE]

\* A nil pointer dereference.
Panicked(zero, c) == [val |-> zero, err |-> NoErr, c |-> c, panic |-> TRUE]

\* fmt.Errorf("value doesn't contain <what>; it contains %s", v.vType()),
\* with <what> as a first argument.
kindError(what, c, v, zero) ==
    Bind(vType(c, v), LAMBDA ty :
    SRet(zero, Errorf("value doesn't contain %s; it contains %s",
                      <<what, TypeString(ty.t)>>), ty.c))

\* The error of a numeric parser on str.
parseError(str) == Errorf("cannot parse number from %q", str)

ValueObject(c, v) ==
    IF v = NilPtr THEN Panicked(NilPtr, c)
    ELSE IF Deref(c, v).t # typeObject THEN kindError("object", c, v, NilPtr)
    ELSE SRet(v, NoErr, c)

ValueArray(c, v) ==
    IF v = NilPtr THEN Panicked(<<>>, c)
    ELSE IF Deref(c, v).t # typeArray THEN kindError("array", c, v, <<>>)
    ELSE SRet(Deref(c, v).a, NoErr, c)

ValueStringBytes(c, v) ==
    IF v = NilPtr THEN Panicked(<<>>, c)
    ELSE Bind(vType(c, v), LAMBDA ty :
         IF ty.t # typeString THEN kindError("string", ty.c, v, <<>>)
         ELSE SRet(Deref(ty.c, v).s, NoErr, ty.c))

\* The shape the strict number accessors share; num is the parser's result
\* on v.s and fits the test of the width.
strictNumber(c, v, zero, num, fits) ==
    IF v = NilPtr THEN Panicked(zero, c)
    ELSE Bind(vType(c, v), LAMBDA ty :
         IF ty.t # typeNumber THEN kindError("number", ty.c, v, zero)
         ELSE IF ~num.ok THEN SRet(zero, parseError(Deref(c, v).s), ty.c)
         ELSE IF ~fits THEN SRet(zero, Errorf("number %q doesn't fit", Deref(c, v).s), ty.c)
         ELSE SRet(num.val, NoErr, ty.c))

\* v.s, or the empty text for nil (not read then).
textOf(c, v) == IF v = NilPtr THEN <<>> ELSE Deref(c, v).s

ValueFloat64(c, v) ==
    strictNumber(c, v, FloatZero, parseFloat64(textOf(c, v)), TRUE)

ValueInt(c, v) ==
    Bind(parseInt64(textOf(c, v)), LAMBDA n :
    strictNumber(c, v, IntZero, n, fitsInt(n.val)))

ValueUint(c, v) ==
    Bind(parseUint64(textOf(c, v)), LAMBDA n :
    strictNumber(c, v, IntZero, n, fitsUint(n.val)))

ValueInt64(c, v) == strictNumber(c, v, IntZero, parseInt64(textOf(c, v)), TRUE)

ValueUint64(c, v) == strictNumber(c, v, IntZero, parseUint64(textOf(c, v)), TRUE)

ValueBool(c, v) ==
    IF v = NilPtr THEN Panicked(FALSE, c)
    ELSE IF Deref(c, v).t = typeTrue THEN SRet(TRUE, NoErr, c)
    ELSE IF Deref(c, v).t = typeFalse THEN SRet(FALSE, NoErr, c)
    ELSE kindError("bool", c, v, FALSE)

(***************************************************************************)
(* Serialization                                                            *)
(***************************************************************************)
hasSpecialChars(str) ==
    \/ IndexByte(str, Ch.quote) >= 0
    \/ IndexByte(str, Ch.backslash) >= 0
    \/ \E i \in 1..Len(str) : str[i] < 32

\* "0123456789abcdef"[x]
lowerHex(x) == IF x < 10 THEN 48 + x ELSE 87 + x

isCont(str, i) == i <= Len(str) /\ str[i] >= 128 /\ str[i] <= 191

\* utf8.DecodeRuneInString: the rune and its width; an ill-formed sequence is
\* U+FFFD of width 1.
DecodeRuneInString(str) ==
    LET b0 == str[1]
        bad == [r |-> 65533, width |-> 1] IN
    IF b0 < 128 THEN [r |-> b0, width |-> 1]
    ELSE IF b0 >= 194 /\ b0 <= 223
    THEN IF isCont(str, 2)
         THEN [r |-> (b0 - 192) * 64 + (str[2] - 128), width |-> 2]
         ELSE bad
    ELSE IF b0 >= 224 /\ b0 <= 239
    THEN IF /\ isCont(str, 2) /\ isCont(str, 3)
            /\ (b0 = 224 => str[2] >= 160)
            /\ (b0 = 237 => str[2] <= 159)
         THEN [r |-> (b0 - 224) * 4096 + (str[2] - 128) * 64 + (str[3] - 128),
               width |-> 3]
         ELSE bad
    ELSE IF b0 >= 240 /\ b0 <= 244
    THEN IF /\ isCont(str, 2) /\ isCont(str, 3) /\ isCont(str, 4)
            /\ (b0 = 240 => str[2] >= 144)
            /\ (b0 = 244 => str[2] <= 143)
         THEN [r |-> (b0 - 240) * 262144 + (str[2] - 128) * 4096
                        + (str[3] - 128) * 64 + (str[4] - 128),
               width |-> 4]
         ELSE bad
    ELSE bad

\* strconv.IsPrint, exact up to U+00FF; above it the texts of the model hold
\* U+FFFD and U+1F600 only, which are printable.
IsPrint(r) ==
    \/ r >= 32 /\ r <= 126
    \/ r >= 161 /\ r # 173

\* The 2, 4 or 8 lower-case hex digits of x.
RECURSIVE hexDigits(_, _)
hexDigits(x, n) ==
    IF n = 0 THEN <<>> ELSE hexDigits(x \div 16, n - 1) \o <<lowerHex(x % 16)>>

\* strconv's appendEscapedRune for the quote '"'.
appendEscapedRune(r, width, bytes) ==
    IF r = Ch.quote \/ r = Ch.backslash THEN <<Ch.backslash, r>>
    ELSE IF IsPrint(r) THEN bytes
    ELSE CASE r = 7 -> <<Ch.backslash, Ch.a>>
           [] r = 8 -> <<Ch.backslash, Ch.b>>
           [] r = 12 -> <<Ch.backslash, Ch.f>>
           [] r = 10 -> <<Ch.backslash, Ch.n>>
           [] r = 13 -> <<Ch.backslash, Ch.r>>
           [] r = 9 -> <<Ch.backslash, Ch.t>>
           [] r = 11 -> <<Ch.backslash, 118>>
           [] OTHER ->
                IF r < 32 \/ r = 127 THEN <<Ch.backslash, Ch.x>> \o hexDigits(r, 2)
                ELSE IF r < 65536 THEN <<Ch.backslash, Ch.u>> \o hexDigits(r, 4)
                ELSE <<Ch.backslash, 85>> \o hexDigits(r, 8)

\* The loop of strconv.AppendQuote over the runes of str.
RECURSIVE quoteRunes(_)
quoteRunes(str) ==
    IF Len(str) = 0 THEN <<>>
    ELSE LET d == DecodeRuneInString(str) IN
         (IF d.width = 1 /\ d.r = 65533
          THEN <<Ch.backslash, Ch.x>> \o hexDigits(str[1], 2)
          ELSE appendEscapedRune(d.r, d.width, Take(str, d.width)))
            \o quoteRunes(Drop(str, d.width))

AppendQuote(str) == <<Ch.quote>> \o quoteRunes(str) \o <<Ch.quote>>

\* escapeString with its fast path always taken.
escapeStringVerbatim(str) == <<Ch.quote>> \o str \o <<Ch.quote>>

escapeString(str) ==
    IF ~hasSpecialChars(str)
    THEN <<Ch.quote>> \o str \o <<Ch.quote>>
    ELSE AppendQuote(str)

RECURSIVE ValueMarshalTo(_, _)
RECURSIVE ObjectMarshalItems(_, _, _)
RECURSIVE ArrayMarshalItems(_, _, _)

\* The loop of Object.MarshalTo from pair i on.
ObjectMarshalItems(c, p, i) ==
    IF i > Len(c[p].o.kvs) THEN <<>>
    ELSE (IF c[p].o.keysUnescaped
          THEN escapeString(c[p].o.kvs[i].k)
          ELSE <<Ch.quote>> \o c[p].o.kvs[i].k \o <<Ch.quote>>)
            \o <<Ch.colon>>
            \o ValueMarshalTo(c, c[p].o.kvs[i].v)
            \o (IF i # Len(c[p].o.kvs) THEN <<Ch.comma>> ELSE <<>>)
            \o ObjectMarshalItems(c, p, i + 1)

ObjectMarshalTo(c, p) ==
    <<Ch.lbrace>> \o ObjectMarshalItems(c, p, 1) \o <<Ch.rbrace>>

\* The loop of the array case of Value.MarshalTo from element i on.
ArrayMarshalItems(c, v, i) ==
    IF i > Len(c[v].a) THEN <<>>
    ELSE ValueMarshalTo(c, c[v].a[i])
            \o (IF i # Len(c[v].a) THEN <<Ch.comma>> ELSE <<>>)
            \o ArrayMarshalItems(c, v, i + 1)

\* v.MarshalTo(nil)
ValueMarshalTo(c, v) ==
    CASE Deref(c, v).t = typeRawString ->
            <<Ch.quote>> \o Deref(c, v).s \o <<Ch.quote>>
      [] Deref(c, v).t = typeObject -> ObjectMarshalTo(c, v)
      [] Deref(c, v).t = typeArray ->
            <<Ch.lbrack>> \o ArrayMarshalItems(c, v, 1) \o <<Ch.rbrack>>
      [] Deref(c, v).t = typeString -> escapeString(Deref(c, v).s)
      [] Deref(c, v).t = typeNumber -> Deref(c, v).s
      [] Deref(c, v).t = typeTrue -> StrTrue
      [] Deref(c, v).t = typeFalse -> StrFalse
      [] Deref(c, v).t = typeNull -> StrNull

(***************************************************************************)
(* Inputs: texts are concatenations of at most a bounded number of tokens.  *)
(***************************************************************************)
RECURSIVE Flatten(_)
Flatten(ts) == IF Len(ts) = 0 THEN <<>> ELSE ts[1] \o Flatten(Tail(ts))

TokenTexts(tokens, n) ==
    {Flatten(ts) : ts \in UNION {[1..m -> tokens] : m \in 0..n}}

MaxKeyTokens == 5

KeyTokens ==
    {<<Ch.quote, Ch.k, Ch.quote>>, <<Ch.quote>>, <<Ch.k>>, <<Ch.colon>>,
     <<Ch.space>>, <<Ch.one>>}

\* The variadic partialKey: absent, empty, "k" and "kk".
KeyArgs == {<<>>, << <<>> >>, << <<Ch.k>> >>, << <<Ch.k, Ch.k>> >>}

NoOut == [op |-> "none"]

KeyInit ==
    /\ s \in TokenTexts(KeyTokens, MaxKeyTokens)
    /\ partialKey \in KeyArgs
    /\ path = <<>>
    /\ pc = "start"
    /\ vs = <<>>
    /\ root = NilPtr
    /\ err = NoErr
    /\ out = NoOut

\* v, err := Parse(s, partialKey...)
DoParse ==
    /\ pc = "start"
    /\ \E r \in {Parse(s, partialKey)} :
        /\ pc' = IF r.panic THEN "panic" ELSE "done"
        /\ root' = r.v
        /\ err' = r.err
        /\ vs' = r.c
    /\ UNCHANGED <<s, partialKey, path, out>>

KeyNext == DoParse

SpecKey == KeyInit /\ [][KeyNext]_vars

(***************************************************************************)
(* C1, C2: the partial-key locator.                                         *)
(***************************************************************************)
\* The key Parse was given, or the empty text when it was given none.
GivenKey == IF Len(partialKey) > 0 THEN partialKey[1] ELSE <<>>

QuotedKey == <<Ch.quote>> \o GivenKey \o <<Ch.quote>>

\* The 1-based positions where the quoted key literal occurs in s.
KeyOccurrences ==
    {i \in 1..Len(s) :
        /\ i + Len(QuotedKey) - 1 <= Len(s)
        /\ SubSeq(s, i, i + Len(QuotedKey) - 1) = QuotedKey}

FirstOccurrence == CHOOSE i \in KeyOccurrences : \A j \in KeyOccurrences : i <= j

\* The positions after the first occurrence that hold no whitespace.
NonBlankAfterKey ==
    {j \in (FirstOccurrence + Len(QuotedKey))..Len(s) :
        s[j] \notin {Ch.space, Ch.tab, Ch.lf, Ch.cr}}

ColonPosition == CHOOSE j \in NonBlankAfterKey : \A i \in NonBlankAfterKey : j <= i

KeyFollowedByColon ==
    /\ KeyOccurrences # {}
    /\ NonBlankAfterKey # {}
    /\ s[ColonPosition] = Ch.colon

Outcome == [v |-> root, err |-> err, c |-> vs, panic |-> pc = "panic"]

\* C1: with a non-empty key whose first quoted occurrence is followed, after
\* optional whitespace, by a colon, Parse returns what parsing the text just
\* after that colon returns; with no key or an empty key it parses s itself.
C1_ParseDelegatesToSuffix ==
    pc # "start" =>
        IF GivenKey = <<>>
        THEN Outcome = parse(s)
        ELSE KeyFollowedByColon =>
                Outcome = parse(SubSeq(s, ColonPosition + 1, Len(s)))

\* A key was found after an earlier quoted occurrence-free prefix and blanks,
\* and the value after its colon parsed.
C1_Witness ==
    /\ pc = "done"
    /\ GivenKey # <<>>
    /\ KeyFollowedByColon
    /\ FirstOccurrence > 1
    /\ ColonPosition > FirstOccurrence + Len(QuotedKey)
    /\ root # NilPtr

\* C2: with a non-empty key that does not occur quoted in s, or whose first
\* occurrence is not followed by a colon, Parse returns an error value.
C2_ErrorWhenKeyUnusable ==
    (pc # "start" /\ GivenKey # <<>> /\ ~KeyFollowedByColon) =>
        (pc = "done" /\ root = NilPtr /\ err # NoErr)

(***************************************************************************)
(* C3: the parse entry point on arbitrary token texts.                      *)
(***************************************************************************)
MaxParseTokens == 5

ParseTokens ==
    {<<Ch.lbrace>>, <<Ch.rbrace>>, <<Ch.lbrack>>, <<Ch.rbrack>>, <<Ch.comma>>,
     <<Ch.quote, Ch.a, Ch.quote, Ch.colon>>, <<Ch.one>>, <<Ch.quote>>}

ParseInit ==
    /\ s \in TokenTexts(ParseTokens, MaxParseTokens)
    /\ partialKey = <<>>
    /\ path = <<>>
    /\ pc = "start"
    /\ vs = <<>>
    /\ root = NilPtr
    /\ err = NoErr
    /\ out = NoOut

ParseNext == DoParse

SpecParse == ParseInit /\ [][ParseNext]_vars

\* The pointers a node holds: its array elements and its object values.
Children(node) ==
    {node.a[i] : i \in 1..Len(node.a)}
        \cup {node.o.kvs[i].v : i \in 1..Len(node.o.kvs)}

ValidPtr(c, p) == p \in 1..Len(c) \/ p \in DOMAIN Singletons

\* Every node of the cache that is part of a returned tree holds only
\* pointers to nodes: no slot was left unfilled by an abandoned parse.
RECURSIVE TreeComplete(_, _)
TreeComplete(c, p) ==
    /\ ValidPtr(c, p)
    /\ \A q \in Children(Deref(c, p)) : TreeComplete(c, q)

\* The number of array/object value wrappers in the error: the nesting depth
\* at which the failure was met.
ErrNesting ==
    Cardinality({i \in 1..Len(err) :
        err[i].msg \in {"cannot parse array value: ", "cannot parse object value: "}})

\* C3: the entry point returns either a complete tree and no error, or no
\* value and an error; a failure met at any nesting depth leaves no value.
C3_ValueXorError ==
    pc = "done" =>
        \/ root # NilPtr /\ err = NoErr /\ TreeComplete(vs, root)
        \/ root = NilPtr /\ err # NoErr

\* A failure met two containers deep, after a sibling had been parsed.
C3_Witness ==
    /\ pc = "done"
    /\ root = NilPtr
    /\ ErrNesting >= 2
    /\ Len(vs) >= 3

(***************************************************************************)
(* C10: unescaping of raw strings.                                          *)
(***************************************************************************)
MaxRawTokens == 5

\* \u, \, a high surrogate (D83D), a low surrogate (DE00), 0041, n and q1.
RawTokens ==
    {<<92, 117>>, <<92>>, <<68, 56, 51, 68>>, <<68, 69, 48, 48>>,
     <<48, 48, 52, 49>>, <<110>>, <<113, 49>>}

\* The raw strings the scanner can hand over: a text is one when the quote
\* put after it is the closing quote parseRawString finds.
ScannedRaw(txt) ==
    LET r == parseRawString(Append(txt, Ch.quote)) IN
    r.err = NoErr /\ r.ss = txt /\ r.tail = <<>>

UnescapeInit ==
    /\ s \in {txt \in TokenTexts(RawTokens, MaxRawTokens) : ScannedRaw(txt)}
    /\ partialKey = <<>>
    /\ path = <<>>
    /\ pc = "start"
    /\ vs = <<>>
    /\ root = NilPtr
    /\ err = NoErr
    /\ out = NoOut

\* out := unescapeStringBestEffort(s)
DoUnescape ==
    /\ pc = "start"
    /\ pc' = "done"
    /\ out' = [op |-> "unescape", val |-> unescapeStringBestEffort(s)]
    /\ UNCHANGED <<s, partialKey, path, vs, root, err>>

UnescapeNext == DoUnescape

SpecUnescape == UnescapeInit /\ [][UnescapeNext]_vars

\* What a well-formed escape at the head of str (which starts with a
\* backslash) stands for, and how many bytes it takes; n = 0 when the escape
\* is malformed or incomplete.
EscapeAt(str) ==
    LET simple == [c \in {Ch.quote, Ch.backslash, Ch.slash, Ch.b, Ch.f, Ch.n,
                          Ch.r, Ch.t} |->
                    CASE c = Ch.b -> Ch.bs [] c = Ch.f -> Ch.ff
                      [] c = Ch.n -> Ch.lf [] c = Ch.r -> Ch.cr
                      [] c = Ch.t -> Ch.tab [] OTHER -> c]
        hex(i) == IF Len(str) >= i + 3 THEN parseHex4(SubSeq(str, i, i + 3)) ELSE -1
        isU(i) == Len(str) >= i + 1 /\ str[i] = Ch.backslash /\ str[i + 1] = Ch.u
    IN  IF Len(str) < 2 THEN [n |-> 0, b |-> <<>>]
        ELSE IF str[2] \in DOMAIN simple THEN [n |-> 2, b |-> <<simple[str[2]]>>]
        ELSE IF str[2] # Ch.u \/ hex(3) < 0 THEN [n |-> 0, b |-> <<>>]
        ELSE IF ~IsSurrogate(hex(3)) THEN [n |-> 6, b |-> utf8(hex(3))]
        ELSE IF /\ hex(3) < 56320
                /\ isU(7)
                /\ hex(9) >= 56320 /\ hex(9) < 57344
        THEN [n |-> 12, b |-> utf8(DecodeRune(hex(3), hex(9)))]
        ELSE [n |-> 0, b |-> <<>>]

\* How many bytes a malformed escape at the head of str spans: \uXXXX for a
\* lone surrogate, the backslash and the byte after it otherwise.
MalformedSpan(str) ==
    IF Len(str) >= 6 /\ str[2] = Ch.u /\ parseHex4(SubSeq(str, 3, 6)) >= 0
    THEN 6
    ELSE IF Len(str) >= 2 THEN 2 ELSE 1

\* The unescaped text as the claim describes it: well-formed escapes are
\* translated, malformed ones are copied as they stand, and the text after
\* either is processed in the same way.
RECURSIVE Unescaped(_)
Unescaped(str) ==
    IF Len(str) = 0 THEN <<>>
    ELSE IF str[1] # Ch.backslash THEN <<str[1]>> \o Unescaped(Drop(str, 1))
    ELSE Bind(EscapeAt(str), LAMBDA esc :
         IF esc.n > 0
         THEN esc.b \o Unescaped(Drop(str, esc.n))
         ELSE Take(str, MalformedSpan(str)) \o Unescaped(Drop(str, MalformedSpan(str))))

\* C10: unescaping returns the text in which every well-formed escape is
\* translated and every malformed or incomplete escape stands unchanged.
C10_MalformedEscapesUnchanged ==
    pc = "done" => out.val = Unescaped(s)

(***************************************************************************)
(* C9: the depth limit.  The inputs are well-formed texts: a value wrapped  *)
(* in up to maxDepth + 1 containers, with and without siblings.             *)
(***************************************************************************)
StrKeyA == <<34, 97, 34, 58>>

Innermost == {<<Ch.one>>, <<Ch.lbrack, Ch.rbrack>>, StrTrue}

\* x as the member of an array or an object, alone or beside siblings.
Wrappings(x) ==
    {<<Ch.lbrack>> \o x \o <<Ch.rbrack>>,
     <<Ch.lbrack, Ch.one, Ch.comma>> \o x \o <<Ch.rbrack>>,
     <<Ch.lbrack>> \o x \o <<Ch.comma, Ch.one, Ch.rbrack>>,
     <<Ch.lbrack, Ch.lbrack, Ch.one, Ch.rbrack, Ch.comma>> \o x \o <<Ch.rbrack>>,
     <<Ch.lbrace>> \o StrKeyA \o x \o <<Ch.rbrace>>,
     <<Ch.lbrace>> \o StrKeyA \o <<Ch.one, Ch.comma>> \o StrKeyA \o x
        \o <<Ch.rbrace>>}

RECURSIVE NestedTexts(_)
NestedTexts(n) ==
    IF n = 0
    THEN Innermost
    ELSE UNION {Wrappings(x) : x \in NestedTexts(n - 1)}

DepthInit ==
    /\ s \in UNION {NestedTexts(n) : n \in 0..(maxDepth + 1)}
    /\ partialKey = <<>>
    /\ path = <<>>
    /\ pc = "start"
    /\ vs = <<>>
    /\ root = NilPtr
    /\ err = NoErr
    /\ out = NoOut

DepthNext == DoParse

SpecDepth == DepthInit /\ [][DepthNext]_vars

\* The containers open at position i of a well-formed text without brackets
\* in strings.
OpenBefore(txt, i) ==
    Cardinality({j \in 1..(i - 1) : txt[j] \in {Ch.lbrack, Ch.lbrace}})
        - Cardinality({j \in 1..(i - 1) : txt[j] \in {Ch.rbrack, Ch.rbrace}})

\* The positions where a value of these texts starts: [ { 1 and the t of true.
ValueStarts(txt) ==
    {i \in 1..Len(txt) : txt[i] \in {Ch.lbrack, Ch.lbrace, Ch.one, Ch.t}}

\* The nesting level of the deepest value: the top-level value is level 1 and
\* a value is one level below the container that holds it.
DeepestLevel(txt) ==
    CHOOSE l \in 1..Len(txt) :
        /\ \E i \in ValueStarts(txt) : OpenBefore(txt, i) + 1 = l
        /\ \A i \in ValueStarts(txt) : OpenBefore(txt, i) + 1 <= l

DepthError ==
    \E i \in 1..Len(err) :
        err[i].msg = "too big depth for the nested JSON; it exceeds %d"

\* C9: a text whose deepest value is at a level of at most maxDepth parses;
\* a text that holds a value at level maxDepth + 1 or deeper fails with the
\* depth error; the level is the nesting alone, whatever values came before.
C9_DepthLimit ==
    pc = "done" =>
        IF DeepestLevel(s) <= maxDepth
        THEN root # NilPtr /\ err = NoErr
        ELSE root = NilPtr /\ DepthError

\* A text parsed whose deepest value sits exactly at the limit, inside the
\* second member of its container.
C9_Witness ==
    /\ pc = "done"
    /\ DeepestLevel(s) = maxDepth
    /\ root # NilPtr
    /\ \E i \in 1..Len(vs) : Len(vs[i].a) = 2 /\ vs[i].a[2] > i + 1
    /\ Len(vs) > maxDepth

(***************************************************************************)
(* C4, C5: lookups on parsed trees.  The texts are the scalars, the arrays  *)
(* and objects of at most MaxItems scalars, and those once more wrapped in  *)
(* an array or an object; one text does not parse (a nil root).             *)
(***************************************************************************)
MaxItems == 2

RECURSIVE Join(_, _)
Join(xs, sep) ==
    IF Len(xs) = 0 THEN <<>>
    ELSE IF Len(xs) = 1 THEN xs[1]
    ELSE xs[1] \o sep \o Join(Tail(xs), sep)

Lists(S, n) == UNION {[1..m -> S] : m \in 0..n}

ArrayText(xs) == <<Ch.lbrack>> \o Join(xs, <<Ch.comma>>) \o <<Ch.rbrack>>
PairText(key, x) == <<Ch.quote>> \o key \o <<Ch.quote, Ch.colon>> \o x
ObjectText(ps) == <<Ch.lbrace>> \o Join(ps, <<Ch.comma>>) \o <<Ch.rbrace>>

Containers(keys, xs, n) ==
    {ArrayText(l) : l \in Lists(xs, n)}
        \cup {ObjectText(l) : l \in Lists({PairText(k, x) : k \in keys, x \in xs}, n)}

Wrapped(xs) ==
    {ArrayText(<<x>>) : x \in xs} \cup {ObjectText(<<PairText(<<Ch.a>>, x)>>) : x \in xs}

\* 1 and true.
GetScalars == {<<Ch.one>>, StrTrue}

\* The raw keys a and a: both unescape to a.
GetRawKeys == {<<Ch.a>>, StrBackslashU \o <<Ch.zero, Ch.zero, 54, Ch.one>>}

GetTexts ==
    GetScalars
        \cup Containers(GetRawKeys, GetScalars, MaxItems)
        \cup Wrapped(Containers(GetRawKeys, GetScalars, MaxItems))
        \cup {<<Ch.lbrack>>}

\* The path segments a, 0, +1, -1 and 2.
GetSegments ==
    {<<Ch.a>>, <<Ch.zero>>, <<Ch.plus, Ch.one>>, <<Ch.minus, Ch.one>>, <<Ch.two>>}

MaxPath == 2

GetPaths == Lists(GetSegments, MaxPath)

\* A behaviour parses one text and then reads along one path.
GetInit ==
    /\ s \in GetTexts
    /\ partialKey = <<>>
    /\ path \in GetPaths
    /\ pc = "start"
    /\ vs = <<>>
    /\ root = NilPtr
    /\ err = NoErr
    /\ out = NoOut

\* r := v.Get(keys...)
DoGet ==
    /\ pc = "done"
    /\ \E r \in {ValueGet(vs, root, path)} :
        /\ vs' = r.c
        /\ out' = [op |-> "Get", val |-> r.val]
    /\ UNCHANGED <<s, partialKey, path, pc, root, err>>

\* o := v.GetObject(keys[:n]...); r := o.Get(keys[n]), for an o that is not
\* nil.
DoObjectGet ==
    /\ pc = "done"
    /\ \E n \in 0..(Len(path) - 1) :
       \E g \in {ValueGet(vs, root, Take(path, n))} :
        /\ g.val # NilPtr
        /\ Deref(g.c, g.val).t = typeObject
        /\ \E r \in {ObjectGet(g.c, g.val, path[n + 1])} :
            /\ vs' = r.c
            /\ out' = [op |-> "Object.Get", obj |-> g.val, key |-> path[n + 1],
                       val |-> r.val]
    /\ UNCHANGED <<s, partialKey, path, pc, root, err>>

\* o := v.GetObject(keys[:n]...); o.Visit(f), for an o that is not nil.
DoVisit ==
    /\ pc = "done"
    /\ \E n \in 0..Len(path) :
       \E g \in {ValueGet(vs, root, Take(path, n))} :
        /\ g.val # NilPtr
        /\ Deref(g.c, g.val).t = typeObject
        /\ \E r \in {ObjectVisit(g.c, g.val)} :
            /\ vs' = r.c
            /\ out' = [op |-> "Visit", obj |-> g.val, visited |-> r.val]
    /\ UNCHANGED <<s, partialKey, path, pc, root, err>>

GetNext == DoParse \/ DoGet \/ DoObjectGet \/ DoVisit

SpecGet == GetInit /\ [][GetNext]_vars

\* The tree as the parser left it: nothing unescaped yet.
RawTree == Parse(s, partialKey).c

\* The pairs of object node p of tree c whose key, unescaped, is key, in
\* source order.
PairsNamed(c, p, key) ==
    SelectSeq(c[p].o.kvs, LAMBDA kv : unescapeStringBestEffort(kv.k) = key)

\* A segment that is a base-10 integer: an optional sign and digits.
SegmentDigits(seg) ==
    IF Len(seg) > 0 /\ seg[1] \in {Ch.plus, Ch.minus} THEN Tail(seg) ELSE seg

IsInteger(seg) ==
    /\ Len(SegmentDigits(seg)) > 0
    /\ \A i \in 1..Len(SegmentDigits(seg)) : SegmentDigits(seg)[i] \in 48..57

SegmentValue(seg) ==
    IF seg[1] = Ch.minus
    THEN 0 - magValue(SegmentDigits(seg), 0)
    ELSE magValue(SegmentDigits(seg), 0)

\* The nodes the walk of C4 may end at in tree c (nil for missing): at an
\* Object any pair of that key continues the walk.
RECURSIVE Walk(_, _, _)
Walk(c, v, ks) ==
    IF v = NilPtr THEN {NilPtr}
    ELSE IF Len(ks) = 0 THEN {v}
    ELSE IF Deref(c, v).t = typeObject
    THEN LET ps == PairsNamed(c, v, ks[1]) IN
         IF Len(ps) = 0
         THEN {NilPtr}
         ELSE UNION {Walk(c, ps[i].v, Tail(ks)) : i \in 1..Len(ps)}
    ELSE IF Deref(c, v).t = typeArray
    THEN IF /\ IsInteger(ks[1])
            /\ SegmentValue(ks[1]) >= 0
            /\ SegmentValue(ks[1]) < Len(Deref(c, v).a)
         THEN Walk(c, Deref(c, v).a[SegmentValue(ks[1]) + 1], Tail(ks))
         ELSE {NilPtr}
    ELSE {NilPtr}

\* C4: Get walks the segments in order: a key lookup at an Object (missing
\* if no pair has the key), an index at an Array iff the segment is a
\* non-negative base-10 integer below the length (missing otherwise), missing
\* at any other node with segments left, the node itself for the empty path.
C4_GetWalksSegments ==
    out.op = "Get" => \E c \in {RawTree} : out.val \in Walk(c, root, path)

\* Get resolved a key and then a signed index.
C4_Witness ==
    /\ out.op = "Get"
    /\ path = <<<<Ch.a>>, <<Ch.plus, Ch.one>>>>
    /\ out.val # NilPtr

\* C5: in every state Object.Get(key) returns the value of the first pair in
\* source order whose unescaped key is key, and nil when there is none.
C5_FirstPairInSourceOrder ==
    out.op = "Object.Get" =>
        \E ps \in {PairsNamed(RawTree, out.obj, out.key)} :
            out.val = IF Len(ps) = 0 THEN NilPtr ELSE ps[1].v

(***************************************************************************)
(* C6, C7: typed reads.  The texts are scalars of every kind and the        *)
(* arrays and objects of at most MaxItems of them; one text does not parse. *)
(***************************************************************************)
\* 1, "1", true, false and null.
TypedScalars ==
    {<<Ch.one>>, <<Ch.quote, Ch.one, Ch.quote>>, StrTrue, StrFalse, StrNull}

TypedTexts ==
    TypedScalars
        \cup Containers({<<Ch.a>>}, TypedScalars, MaxItems)
        \cup {<<Ch.lbrack>>}

\* The empty path and the paths a, 0 and 1.
TypedPaths == {<<>>, <<<<Ch.a>>>>, <<<<Ch.zero>>>>, <<<<Ch.one>>>>}

PermissiveGetters ==
    {"GetString", "GetBool", "GetInt", "GetUint", "GetInt64", "GetUint64",
     "GetFloat64", "GetObject", "GetArray", "GetStringBytes"}

StrictAccessors ==
    {"Object", "Array", "StringBytes", "Float64", "Int", "Uint", "Int64",
     "Uint64", "Bool"}

Permissive(name, c, v, ks) ==
    CASE name = "GetString" -> GetString(c, v, ks)
      [] name = "GetBool" -> GetBool(c, v, ks)
      [] name = "GetInt" -> GetInt(c, v, ks)
      [] name = "GetUint" -> GetUint(c, v, ks)
      [] name = "GetInt64" -> GetInt64(c, v, ks)
      [] name = "GetUint64" -> GetUint64(c, v, ks)
      [] name = "GetFloat64" -> GetFloat64(c, v, ks)
      [] name = "GetObject" -> GetObject(c, v, ks)
      [] name = "GetArray" -> GetArray(c, v, ks)
      [] name = "GetStringBytes" -> GetStringBytes(c, v, ks)

Strict(name, c, v) ==
    CASE name = "Object" -> ValueObject(c, v)
      [] name = "Array" -> ValueArray(c, v)
      [] name = "StringBytes" -> ValueStringBytes(c, v)
      [] name = "Float64" -> ValueFloat64(c, v)
      [] name = "Int" -> ValueInt(c, v)
      [] name = "Uint" -> ValueUint(c, v)
      [] name = "Int64" -> ValueInt64(c, v)
      [] name = "Uint64" -> ValueUint64(c, v)
      [] name = "Bool" -> ValueBool(c, v)

TypedInit ==
    /\ s \in TypedTexts
    /\ partialKey = <<>>
    /\ path \in TypedPaths
    /\ pc = "start"
    /\ vs = <<>>
    /\ root = NilPtr
    /\ err = NoErr
    /\ out = NoOut

\* x := v.GetX(path...); node is what v.Get(path...) resolves to.
DoPermissive ==
    /\ pc = "done"
    /\ \E name \in PermissiveGetters :
       \E g \in {ValueGet(vs, root, path)} :
       \E r \in {Permissive(name, vs, root, path)} :
        /\ vs' = r.c
        /\ out' = [op |-> "permissive", name |-> name, node |-> g.val,
                   val |-> r.val, err |-> NoErr]
    /\ UNCHANGED <<s, partialKey, path, pc, root, err>>

\* x, err := v.Get(path...).X()
DoStrict ==
    /\ pc = "done"
    /\ \E name \in StrictAccessors :
       \E g \in {ValueGet(vs, root, path)} :
       \E r \in {Strict(name, g.c, g.val)} :
        /\ vs' = r.c
        /\ pc' = IF r.panic THEN "panic" ELSE "done"
        /\ out' = [op |-> "strict", name |-> name, node |-> g.val,
                   val |-> r.val, err |-> r.err]
    /\ UNCHANGED <<s, partialKey, path, root, err>>

TypedNext == DoParse \/ DoPermissive \/ DoStrict

SpecTyped == TypedInit /\ [][TypedNext]_vars

\* The kind of the node the read resolved to: a string is a string whether
\* or not it has been unescaped yet.
ResolvedKind ==
    IF out.node = NilPtr THEN "missing"
    ELSE IF Deref(vs, out.node).t = typeRawString THEN "string"
    ELSE TypeString(Deref(vs, out.node).t)

\* The kinds a getter or accessor asks for.
AskedKinds(name) ==
    CASE name \in {"GetString", "GetStringBytes", "StringBytes"} -> {"string"}
      [] name \in {"GetInt", "GetUint", "GetInt64", "GetUint64", "GetFloat64",
                   "Float64", "Int", "Uint", "Int64", "Uint64"} -> {"number"}
      [] name \in {"GetObject", "Object"} -> {"object"}
      [] name \in {"GetArray", "Array"} -> {"array"}
      [] name = "GetBool" -> {"true"}
      [] name = "Bool" -> {"true", "false"}

\* The read returned the zero value of its type.
ZeroReturned ==
    CASE out.name \in {"GetString", "GetStringBytes", "StringBytes",
                       "GetArray", "Array"} -> out.val = <<>>
      [] out.name \in {"GetInt", "GetUint", "GetInt64", "GetUint64",
                       "Int", "Uint", "Int64", "Uint64"} -> out.val = IntZero
      [] out.name \in {"GetFloat64", "Float64"} -> out.val = FloatZero
      [] out.name \in {"GetObject", "Object"} -> out.val = NilPtr
      [] out.name \in {"GetBool", "Bool"} -> out.val = FALSE

\* C6: a permissive getter returns its zero value when the path does not
\* resolve or resolves to a node of another kind, and never crashes; GetBool
\* is true on a True node only.
C6_PermissiveZeroValue ==
    out.op = "permissive" =>
        /\ pc # "panic"
        /\ ResolvedKind \notin AskedKinds(out.name) => ZeroReturned
        /\ out.name = "GetBool" => (out.val <=> ResolvedKind = "true")

\* GetInt64 met a string that holds digits.
C6_Witness ==
    /\ out.op = "permissive"
    /\ out.name = "GetInt64"
    /\ out.node > 0
    /\ vs[out.node].t = typeString
    /\ vs[out.node].s = <<Ch.one>>

\* C7: a strict accessor applied to what Get returned gives an error, and
\* neither a value nor a crash, when the path did not resolve or the node is
\* of another kind than the one asked for.
C7_StrictErrorOnMismatch ==
    (out.op = "strict" /\ ResolvedKind \notin AskedKinds(out.name)) =>
        /\ pc # "panic"
        /\ out.err # NoErr
        /\ ZeroReturned

(***************************************************************************)
(* C8: serialize, parse again, serialize again.  The texts are scalars      *)
(* (a number within blanks and strings with escapes) and the arrays and     *)
(* objects, with escaped keys, of at most MaxItems of them.                 *)
(***************************************************************************)
StrNumber == <<Ch.one, Ch.dot, Ch.zero>>

\* " 1.0 ", "\/", "\u0001", "\\" and "\uD83D".
MarshalScalars ==
    {<<Ch.space>> \o StrNumber \o <<Ch.space>>,
     <<Ch.quote, Ch.backslash, Ch.slash, Ch.quote>>,
     <<Ch.quote>> \o StrBackslashU \o <<Ch.zero, Ch.zero, Ch.zero, Ch.one>> \o <<Ch.quote>>,
     <<Ch.quote, Ch.backslash, Ch.backslash, Ch.quote>>,
     <<Ch.quote>> \o StrBackslashU \o <<68, 56, 51, 68>> \o <<Ch.quote>>}

\* The raw keys \/ and \".
MarshalRawKeys == {<<Ch.backslash, Ch.slash>>, <<Ch.backslash, Ch.quote>>}

MarshalTexts == MarshalScalars \cup Containers(MarshalRawKeys, MarshalScalars, MaxItems)

\* The empty path and the paths /, 0 and 1.
MarshalPaths == {<<>>, <<<<Ch.slash>>>>, <<<<Ch.zero>>>>, <<<<Ch.one>>>>}

MarshalInit ==
    /\ s \in MarshalTexts
    /\ partialKey = <<>>
    /\ path \in MarshalPaths
    /\ pc = "start"
    /\ vs = <<>>
    /\ root = NilPtr
    /\ err = NoErr
    /\ out = NoOut

\* v.GetStringBytes(path[:n]...): a read that unescapes the keys it compares
\* and the string it returns.
DoRead ==
    /\ pc = "done"
    /\ \E n \in 0..Len(path) :
       \E r \in {GetStringBytes(vs, root, Take(path, n))} :
        /\ vs' = r.c
        /\ out' = [op |-> "GetStringBytes", val |-> r.val]
    /\ UNCHANGED <<s, partialKey, path, pc, root, err>>

\* b := v.MarshalTo(nil), for a v that is not nil.
DoMarshal ==
    /\ pc = "done"
    /\ root # NilPtr
    /\ \E b \in {ValueMarshalTo(vs, root)} :
        /\ out' = [op |-> "MarshalTo", first |-> <<>>, val |-> b]
    /\ pc' = "marshaled"
    /\ UNCHANGED <<s, partialKey, path, vs, root, err>>

\* v, err = Parse(string(b))
DoParseAgain ==
    /\ pc = "marshaled"
    /\ \E r \in {Parse(out.val, <<>>)} :
        /\ pc' = IF r.panic THEN "panic" ELSE "parsed again"
        /\ root' = r.v
        /\ err' = r.err
        /\ vs' = r.c
    /\ UNCHANGED <<s, partialKey, path, out>>

\* b2 := v.MarshalTo(nil), for a v that is not nil.
DoMarshalAgain ==
    /\ pc = "parsed again"
    /\ root # NilPtr
    /\ \E b \in {ValueMarshalTo(vs, root)} :
        /\ out' = [op |-> "MarshalTo", first |-> out.val, val |-> b]
    /\ pc' = "marshaled again"
    /\ UNCHANGED <<s, partialKey, path, vs, root, err>>

MarshalNext == DoParse \/ DoRead \/ DoMarshal \/ DoParseAgain \/ DoMarshalAgain

SpecMarshal == MarshalInit /\ [][MarshalNext]_vars

\* The tree holds an unescaped string or an object with unescaped keys.
Touched ==
    \E p \in 1..Len(vs) : vs[p].t = typeString \/ vs[p].o.keysUnescaped

\* C8: the serialization of a parsed value, untouched or lazily unescaped in
\* part, parses, and serializing that result gives the same bytes again; a
\* number is emitted as its raw text.
C8_RoundTrip ==
    /\ pc = "parsed again" => (err = NoErr /\ root # NilPtr)
    /\ pc = "marshaled again" => out.val = out.first
    /\ (pc = "marshaled" /\ root > 0 /\ vs[root].t = typeNumber) =>
            (out.val = vs[root].s /\ out.val = StrNumber)
    /\ (pc = "marshaled" /\ root > 0 /\ vs[root].t = typeArray
            /\ \A i \in 1..Len(vs[root].a) : Deref(vs, vs[root].a[i]).t = typeNumber) =>
            out.val = ArrayText([i \in 1..Len(vs[root].a) |-> StrNumber])

\* The round trip of a tree serialized after a string of it was unescaped
\* to a control byte, next to a number.
C8_Witness ==
    /\ pc = "marshaled again"
    /\ out.val = out.first
    /\ Index(out.val, <<Ch.backslash, Ch.x, Ch.zero, Ch.one>>) >= 0
    /\ Index(out.val, StrNumber) >= 0

(***************************************************************************)
(* C11: the raw string scanner on the text that follows an opening quote.   *)
(***************************************************************************)
MaxScanLen == 5

\* The bytes ", \ and a.
ScanBytes == {Ch.quote, Ch.backslash, Ch.a}

ScanInit ==
    /\ s \in UNION {[1..m -> ScanBytes] : m \in 0..MaxScanLen}
    /\ partialKey = <<>>
    /\ path = <<>>
    /\ pc = "start"
    /\ vs = <<>>
    /\ root = NilPtr
    /\ err = NoErr
    /\ out = NoOut

\* ss, tail, err := parseRawString(s)
DoParseRawString ==
    /\ pc = "start"
    /\ \E r \in {parseRawString(s)} :
        out' = [op |-> "parseRawString", ss |-> r.ss, tail |-> r.tail, err |-> r.err]
    /\ pc' = "done"
    /\ UNCHANGED <<s, partialKey, path, vs, root, err>>

ScanNext == DoParseRawString

SpecScan == ScanInit /\ [][ScanNext]_vars

\* The number of consecutive backslashes immediately before 0-based index q.
BackslashesBefore(str, q) ==
    CHOOSE k \in 0..q :
        /\ \A i \in (q - k + 1)..q : str[i] = Ch.backslash
        /\ (k < q => str[q - k] # Ch.backslash)

\* The 0-based indexes of the quotes that close the string.
ClosingQuotes(str) ==
    {q \in 0..(Len(str) - 1) :
        str[q + 1] = Ch.quote /\ BackslashesBefore(str, q) % 2 = 0}

\* C11: parseRawString returns (s[:q], s[q+1:]) for the smallest q at which
\* s holds a quote preceded by an even number of consecutive backslashes,
\* and the missing-closing-quote error iff there is no such q.
C11_FirstUnescapedQuote ==
    out.op = "parseRawString" =>
        IF ClosingQuotes(s) = {}
        THEN out.err = Errorf("missing closing '\"'", <<>>)
        ELSE LET q == CHOOSE x \in ClosingQuotes(s) : \A y \in ClosingQuotes(s) : x <= y IN
             /\ out.err = NoErr
             /\ out.ss = Take(s, q)
             /\ out.tail = Drop(s, q + 1)

\* An escaped quote and an escaped backslash were passed before the closing
\* quote.
C11_Witness ==
    /\ out.op = "parseRawString"
    /\ out.err = NoErr
    /\ out.ss = <<Ch.backslash, Ch.quote, Ch.backslash, Ch.backslash>>

(***************************************************************************)
(* C12: the member loops of parseObject and parseArray.  The texts are an   *)
(* opening bracket followed by at most MaxMemberTokens tokens.               *)
(***************************************************************************)
MaxMemberTokens == 4

MemberTokens ==
    {<<Ch.lbrace>>, <<Ch.rbrace>>, <<Ch.lbrack>>, <<Ch.rbrack>>, <<Ch.comma>>,
     <<Ch.quote, Ch.a, Ch.quote, Ch.colon>>, <<Ch.one>>, <<Ch.one, Ch.space>>}

MemberInit ==
    /\ s \in {<<open>> \o rest : open \in {Ch.lbrack, Ch.lbrace},
                                 rest \in TokenTexts(MemberTokens, MaxMemberTokens)}
    /\ partialKey = <<>>
    /\ path = <<>>
    /\ pc = "start"
    /\ vs = <<>>
    /\ root = NilPtr
    /\ err = NoErr
    /\ out = NoOut

MemberNext == DoParse

SpecMember == MemberInit /\ [][MemberNext]_vars

MemberRes(ok, kind, text, tail) == [ok |-> ok, kind |-> kind, text |-> text, tail |-> tail]

\* One member at the head of str, parsed on its own: a value for an array, a
\* quoted key, ':' and a value for an object.  Its text is its serialization.
MemberAt(str, isObject) ==
    IF ~isObject
    THEN LET r == parseValue(skipWS(str), <<>>, 1) IN
         IF r.err # NoErr THEN MemberRes(FALSE, "member", <<>>, r.tail)
         ELSE MemberRes(TRUE, "", ValueMarshalTo(r.c, r.v), r.tail)
    ELSE LET s0 == skipWS(str) IN
         IF Len(s0) = 0 \/ s0[1] # Ch.quote THEN MemberRes(FALSE, "member", <<>>, s0)
         ELSE LET k == parseRawKey(Drop(s0, 1))
                  s1 == skipWS(k.tail) IN
              IF k.err # NoErr \/ Len(s1) = 0 \/ s1[1] # Ch.colon
              THEN MemberRes(FALSE, "member", <<>>, s1)
              ELSE LET r == parseValue(skipWS(Drop(s1, 1)), <<>>, 1) IN
                   IF r.err # NoErr THEN MemberRes(FALSE, "member", <<>>, r.tail)
                   ELSE MemberRes(TRUE, "", PairText(k.ss, ValueMarshalTo(r.c, r.v)),
                                  r.tail)

\* The rule of C12 from a member position on: a member, then ',' and again,
\* or the closing bracket; found is the texts of the members so far.
RECURSIVE MembersFrom(_, _, _)
MembersFrom(str, isObject, found) ==
    LET m == MemberAt(str, isObject)
        rest == skipWS(m.tail)
        closer == IF isObject THEN Ch.rbrace ELSE Ch.rbrack IN
    IF ~m.ok THEN m
    ELSE IF Len(rest) = 0 THEN MemberRes(FALSE, "end", <<>>, rest)
    ELSE IF rest[1] = closer
    THEN MemberRes(TRUE, "", Join(Append(found, m.text), <<Ch.comma>>), Drop(rest, 1))
    ELSE IF rest[1] = Ch.comma
    THEN MembersFrom(Drop(rest, 1), isObject, Append(found, m.text))
    ELSE MemberRes(FALSE, "comma", <<>>, rest)

\* The container that starts s: empty when the closing bracket follows the
\* opening one, else the members from there on.
ExpectedContainer ==
    LET isObject == s[1] = Ch.lbrace
        s0 == skipWS(Drop(s, 1)) IN
    IF Len(s0) > 0 /\ s0[1] = (IF isObject THEN Ch.rbrace ELSE Ch.rbrack)
    THEN MemberRes(TRUE, "", <<>>, Drop(s0, 1))
    ELSE MembersFrom(s0, isObject, <<>>)

\* The messages the parser has for each way the rule fails.
MessagesOf(kind) ==
    CASE kind = "comma" ->
            {"missing ',' after array value", "missing ',' after object value"}
      [] kind = "end" -> {"unexpected end of array", "unexpected end of object"}
      [] kind = "member" ->
            {"cannot parse array value: ", "cannot parse object value: ",
             "cannot find opening '\"\" for object key", "cannot parse object key: ",
             "missing ':' after object key", "missing ']'", "missing '}'"}

MaxNumberTokens == 3

\* - + 1 . e x } inf NaN
NumberTokens ==
    {<<Ch.minus>>, <<Ch.plus>>, <<Ch.one>>, <<Ch.dot>>, <<Ch.e>>, <<Ch.x>>,
     <<Ch.rbrace>>, StrInf, <<Ch.N, Ch.a, Ch.N>>}

NumberInit ==
    /\ s \in TokenTexts(NumberTokens, MaxNumberTokens) \ {<<>>}
    /\ partialKey = <<>>
    /\ path = <<>>
    /\ pc = "start"
    /\ vs = <<>>
    /\ root = NilPtr
    /\ err = NoErr
    /\ out = NoOut

NumberNext == DoParse

SpecNumber == NumberInit /\ [][NumberNext]_vars

\* The 0-based index at which the scan of s stops: the first byte that is
\* none of the digits, '.', '-', '+', 'e', 'E', or the length of s.
ScanStop ==
    IF \E i \in 1..Len(s) : ~isNumberChar(s[i])
    THEN (CHOOSE i \in 1..Len(s) :
            ~isNumberChar(s[i]) /\ \A j \in 1..(i - 1) : isNumberChar(s[j])) - 1
    ELSE Len(s)

\* A case-insensitive inf or nan starts at 0-based index i of s.
TokenAt(i) ==
    /\ Len(s) - i >= 3
    /\ (EqualFold(SubSeq(s, i + 1, i + 3), StrInf)
            \/ EqualFold(SubSeq(s, i + 1, i + 3), StrNan))

\* The argument of the scanner's error, when the parse failed with it.
NamedChar ==
    LET at == {i \in 1..Len(err) : err[i].msg = "unexpected char: %q"} IN
    IF at = {} THEN <<>> ELSE err[CHOOSE i \in at : TRUE].arg

\* C13: the scanner takes the maximal run of number bytes; when the scan
\* stops at the first byte and inf or nan starts there, that token is the raw
\* number; otherwise, when the scanner fails, the parse fails and the error
\* names the byte at which the scan stopped.
C13_OffendingCharNamed ==
    pc = "done" =>
        /\ (ScanStop = 0 /\ TokenAt(0)) =>
                (err = NoErr /\ root > 0 /\ vs[root].s = Take(s, 3))
        /\ (ScanStop > 0 /\ ~(ScanStop = 1 /\ TokenAt(1))) =>
                (err = NoErr => (root > 0 /\ vs[root].s = Take(s, ScanStop)))
        /\ err # NoErr => NamedChar = <<s[ScanStop + 1]>>

(***************************************************************************)
(* C14: the strict float parser on texts of sign, digit, '.', exponent,     *)
(* special and stray tokens.                                                *)
(***************************************************************************)
MaxFloatTokens == 4

\* - + 1 . e x inf Infinity NaN
FloatTokens ==
    {<<Ch.minus>>, <<Ch.plus>>, <<Ch.one>>, <<Ch.dot>>, <<Ch.e>>, <<Ch.x>>,
     StrInf, <<Ch.I>> \o Tail(StrInfinity), <<Ch.N, Ch.a, Ch.N>>}

FloatInit ==
    /\ s \in TokenTexts(FloatTokens, MaxFloatTokens)
    /\ partialKey = <<>>
    /\ path = <<>>
    /\ pc = "start"
    /\ vs = <<>>
    /\ root = NilPtr
    /\ err = NoErr
    /\ out = NoOut

\* f, err := parse(s)
DoParseFloat ==
    /\ pc = "start"
    /\ \E r \in {parseFloat64(s)} :
        out' = [op |-> "parse", ok |-> r.ok, val |-> r.val]
    /\ pc' = "done"
    /\ UNCHANGED <<s, partialKey, path, vs, root, err>>

FloatNext == DoParseFloat

SpecFloat == FloatInit /\ [][FloatNext]_vars

Unsigned(str) ==
    IF Len(str) > 0 /\ str[1] \in {Ch.minus, Ch.plus} THEN Tail(str) ELSE str

IsSpecial(str) ==
    EqualFold(str, StrInf) \/ EqualFold(str, StrInfinity) \/ EqualFold(str, StrNan)

AllDigits(str) == \A i \in 1..Len(str) : str[i] \in 48..57

\* The exponent part: empty, or 'e' or 'E', an optional sign and digits.
IsExponent(str) ==
    \/ Len(str) = 0
    \/ /\ str[1] \in {Ch.e, Ch.E}
       /\ Len(Unsigned(Tail(str))) > 0
       /\ AllDigits(Unsigned(Tail(str)))

\* The numeric texts of C14: a sign, digits with an optional fraction (the
\* integer part may be elided before '.'), an exponent; or a sign and inf,
\* infinity or nan.  With elided, a '.' after digits may end the mantissa.
IsFloatText(str, elided) ==
    LET body == Unsigned(str)
        n1 == digitRun(body, 0)
        dot == n1 < Len(body) /\ body[n1 + 1] = Ch.dot
        n2 == IF dot THEN digitRun(body, n1 + 1) ELSE 0
        m == n1 + (IF dot THEN 1 ELSE 0) + n2 IN
    \/ IsSpecial(body)
    \/ /\ IF dot THEN n2 > 0 \/ (elided /\ n1 > 0) ELSE n1 > 0
       /\ IsExponent(Drop(body, m))

\* The texts C14 has rejected: the empty text, a bare sign, a '.' with no
\* digit on either side, a numeric text followed by a leftover suffix.
IsRejectedText(str) ==
    \/ Len(str) = 0
    \/ str \in {<<Ch.minus>>, <<Ch.plus>>}
    \/ /\ Len(Unsigned(str)) > 0
       /\ Unsigned(str)[1] = Ch.dot
       /\ (Len(Unsigned(str)) = 1 \/ Unsigned(str)[2] \notin 48..57)
    \/ /\ ~IsFloatText(str, TRUE)
       /\ \E k \in 1..(Len(str) - 1) : IsFloatText(Take(str, k), TRUE)

\* C14: parse succeeds on every numeric text (optional '-' or '+', digits
\* with an optional fraction, optional exponent; inf, infinity, nan in any
\* case) and fails on the empty text, a bare sign, a '.' without digits and
\* a leftover suffix.
C14_StrictFloatGrammar ==
    out.op = "parse" =>
        /\ IsFloatText(s, FALSE) => out.ok
        /\ IsRejectedText(s) => ~out.ok

(***************************************************************************)
(* C15: the strict integer parsers against strconv, on texts of signs,      *)
(* digits and the digit runs that reach the ends of the 64-bit ranges.      *)
(***************************************************************************)
MaxIntTokens == 3

\* - + 0 1 x, 922337203685477580 with 7 or 8, 1844674407370955161 with 5 or 6
IntTokens ==
    {<<Ch.minus>>, <<Ch.plus>>, <<Ch.zero>>, <<Ch.one>>, <<Ch.x>>,
     Take(MaxInt64Mag, 18), <<55>>, <<56>>, Take(MaxUint64Mag, 19), <<53>>, <<54>>}

IntInit ==
    /\ s \in TokenTexts(IntTokens, MaxIntTokens)
    /\ partialKey = <<>>
    /\ path = <<>>
    /\ pc = "start"
    /\ vs = <<>>
    /\ root = NilPtr
    /\ err = NoErr
    /\ out = NoOut

\* n, err := parseInt64(s), next to strconv.ParseInt(s, 10, 64)
DoParseInt64 ==
    /\ pc = "start"
    /\ \E r \in {parseInt64(s)}, g \in {strconvParseInt(s)} :
        out' = [op |-> "parseInt64", res |-> r, general |-> g]
    /\ pc' = "done"
    /\ UNCHANGED <<s, partialKey, path, vs, root, err>>

\* n, err := parseUint64(s), next to strconv.ParseUint(s, 10, 64)
DoParseUint64 ==
    /\ pc = "start"
    /\ \E r \in {parseUint64(s)}, g \in {strconvParseUint(s)} :
        out' = [op |-> "parseUint64", res |-> r, general |-> g]
    /\ pc' = "done"
    /\ UNCHANGED <<s, partialKey, path, vs, root, err>>

IntNext == DoParseInt64 \/ DoParseUint64

SpecInt == IntInit /\ [][IntNext]_vars

\* C15: parseInt64 and parseUint64 give the outcome of strconv.ParseInt and
\* strconv.ParseUint in base 10 and 64 bits: the same value, or an error
\* where they give an error.
C15_SameAsGeneralParser ==
    out.op \in {"parseInt64", "parseUint64"} =>
        /\ out.res.ok = out.general.ok
        /\ out.res.val = out.general.val

(***************************************************************************)
(* C16: node kinds under reads and serialization.  The texts are scalars    *)
(* (one a string whose text unescapes to an escape) and the arrays and      *)
(* objects of at most MaxItems of them.                                     *)
(***************************************************************************)
\* 1, "\\n", true and null.
KindScalars ==
    {<<Ch.one>>, <<Ch.quote, Ch.backslash, Ch.backslash, Ch.n, Ch.quote>>,
     StrTrue, StrNull}

KindTexts == KindScalars \cup Containers({<<Ch.a>>}, KindScalars, MaxItems)

KindInit ==
    /\ s \in KindTexts
    /\ partialKey = <<>>
    /\ path \in TypedPaths
    /\ pc = "start"
    /\ vs = <<>>
    /\ root = NilPtr
    /\ err = NoErr
    /\ out = NoOut

\* b := v.MarshalTo(nil), between reads.
DoSerialize ==
    /\ pc = "done"
    /\ root # NilPtr
    /\ \E b \in {ValueMarshalTo(vs, root)} :
        out' = [op |-> "MarshalTo", val |-> b]
    /\ UNCHANGED <<s, partialKey, path, pc, vs, root, err>>

KindNext ==
    DoParse \/ DoGet \/ DoObjectGet \/ DoVisit \/ DoPermissive \/ DoStrict
        \/ DoSerialize

SpecKind == KindInit /\ [][KindNext]_vars

\* A step on a parsed tree: the cache keeps its nodes, a node keeps its kind
\* or goes from RawString to String, and a node that is not a RawString
\* keeps its text.
KindStep ==
    pc = "done" =>
        /\ root' = root
        /\ Len(vs') = Len(vs)
        /\ \A p \in 1..Len(vs) :
            /\ \/ vs'[p].t = vs[p].t
               \/ vs[p].t = typeRawString /\ vs'[p].t = typeString
            /\ vs[p].t # typeRawString => vs'[p].s = vs[p].s
        /\ \A p \in DOMAIN Singletons :
            Deref(vs', p) = Deref(vs, p) /\ Deref(vs, p).t \in {typeTrue, typeFalse, typeNull}

SerializedUnread == \E c \in {RawTree} : out.val = ValueMarshalTo(c, root)

\* C17: the root serializes to the same text after any sequence of reads as
\* it does right after the parse.
C17_ReadsKeepSerialization == pc = "marshaled" => SerializedUnread

(***************************************************************************)
(* C18: text after the first value.  A text of at most MaxTailTokens tokens *)
(* is parsed, and a text that parsed is parsed again with one more token    *)
(* appended.                                                                *)
(***************************************************************************)
MaxTailTokens == 4

TailTokens ==
    {<<Ch.lbrace>>, <<Ch.rbrace>>, <<Ch.lbrack>>, <<Ch.rbrack>>, <<Ch.comma>>,
     <<Ch.quote, Ch.a, Ch.quote, Ch.colon>>, <<Ch.one>>, <<Ch.quote>>,
     <<Ch.backslash>>, <<Ch.space>>}

TailInit ==
    /\ s \in TokenTexts(TailTokens, MaxTailTokens)
    /\ partialKey = <<>>
    /\ path = <<>>
    /\ pc = "start"
    /\ vs = <<>>
    /\ root = NilPtr
    /\ err = NoErr
    /\ out = NoOut

\* v2, err2 := Parse(s + u), with a parser of its own.
DoParseWithTail ==
    /\ pc = "done"
    /\ err = NoErr
    /\ \E u \in TailTokens :
        \E r \in {Parse(s \o u, partialKey)} :
            /\ pc' = IF r.panic THEN "panic" ELSE "parsed with tail"
            /\ out' = [op |-> "Parse", tail |-> u, v |-> r.v, err |-> r.err,
                       c |-> r.c]
    /\ UNCHANGED <<s, partialKey, path, vs, root, err>>

TailNext == DoParse \/ DoParseWithTail

SpecTail == TailInit /\ [][TailNext]_vars

\* The text parsed and its top-level value is an object, an array or a string.
ClosedValue ==
    /\ pc # "start"
    /\ err = NoErr
    /\ Deref(vs, root).t \in {typeObject, typeArray, typeRawString}

\* C18: when a text parses and its top-level value is an object, an array or
\* a string, the text followed by any other text parses too, to the same
\* tree.
C18_TailIgnored ==
    (out.op = "Parse" /\ ClosedValue) =>
        /\ pc = "parsed with tail"
        /\ out.err = NoErr
        /\ out.v = root
        /\ out.c = vs

\* The string "\"" followed by one more quote.
C18_Witness ==
    /\ s = <<Ch.quote, Ch.backslash, Ch.quote, Ch.quote>>
    /\ ClosedValue
    /\ out.op = "Parse"
    /\ out.tail = <<Ch.quote>>
    /\ out.c = vs

(***************************************************************************)
(* C19: unescaping in place.  The working buffer p.b holds the text          *)
(* ["<body>","a"]; the node of the first string holds the slice              *)
(* p.b[lo:hi].  A frame of unescapeStringBestEffort is the buffer, lo and    *)
(* hi, the output b = buf[lo:w], the input left s = buf[r:hi], and, once     *)
(* append has outgrown cap(b) = hi - lo, the new array nb of b.              *)
(***************************************************************************)
MaxInPlaceTokens == 4

InPlaceTokens == RawTokens \cup {<<Ch.quote>>}

InPlacePrefix == <<Ch.lbrack, Ch.quote>>

InPlaceSuffix == <<Ch.quote, Ch.comma, Ch.quote, Ch.a, Ch.quote, Ch.rbrack>>

InPlaceInit ==
    /\ \E body \in {txt \in TokenTexts(InPlaceTokens, MaxInPlaceTokens) :
                        ScannedRaw(txt)} :
        s = InPlacePrefix \o body \o InPlaceSuffix
    /\ partialKey = <<>>
    /\ path = <<>>
    /\ pc = "start"
    /\ vs = <<>>
    /\ root = NilPtr
    /\ err = NoErr
    /\ out = NoOut

\* b = append(b, bytes...) for b made by s2b: in place while it fits in
\* cap(b), in a new array afterwards.
inPlaceAppend(f, bytes) ==
    IF f.grown
    THEN [f EXCEPT !.nb = @ \o bytes]
    ELSE IF f.w + Len(bytes) > f.hi
    THEN [f EXCEPT !.grown = TRUE,
                   !.nb = SubSeq(f.buf, f.lo + 1, f.w) \o bytes]
    ELSE [f EXCEPT !.buf = [i \in 1..Len(f.buf) |->
                               IF i > f.w /\ i <= f.w + Len(bytes)
                               THEN bytes[i - f.w] ELSE f.buf[i]],
                   !.w = @ + Len(bytes)]

\* The input left, s.
inPlaceRest(f) == SubSeq(f.buf, f.r + 1, f.hi)

\* The entry with b = b[:n+1].
unescapeEnterKeepsBackslash(buf, lo, hi) ==
    Bind(IndexByte(SubSeq(buf, lo + 1, hi), Ch.backslash), LAMBDA n :
    [buf |-> buf, lo |-> lo, hi |-> hi, grown |-> FALSE, nb |-> <<>>,
     w |-> IF n < 0 THEN hi ELSE lo + n + 1,
     r |-> IF n < 0 THEN hi ELSE lo + n + 1,
     fast |-> n < 0])

\* n := strings.IndexByte(s, '\\'); the fast path, or b = b[:n], s = s[n+1:].
unescapeEnter(buf, lo, hi) ==
    Bind(IndexByte(SubSeq(buf, lo + 1, hi), Ch.backslash), LAMBDA n :
    [buf |-> buf, lo |-> lo, hi |-> hi, grown |-> FALSE, nb |-> <<>>,
     w |-> IF n < 0 THEN hi ELSE lo + n,
     r |-> IF n < 0 THEN hi ELSE lo + n + 1,
     fast |-> n < 0])

\* The failed surrogate: b = append(b, "\\u"...); b = append(b, xs...), xs
\* being the four bytes of the buffer before r.
inPlaceKeepEscape(g) ==
    Bind(inPlaceAppend(g, StrBackslashU), LAMBDA h :
    inPlaceAppend(h, SubSeq(h.buf, g.r - 3, g.r)))

\* The case 'u' of the switch, s starting after the 'u'.
inPlaceU(f) ==
    IF f.hi - f.r < 4
    THEN inPlaceAppend(f, StrBackslashU)
    ELSE Bind(parseHex4(SubSeq(f.buf, f.r + 1, f.r + 4)), LAMBDA x :
         Bind([f EXCEPT !.r = @ + 4], LAMBDA g :
         IF x < 0
         THEN inPlaceAppend(f, StrBackslashU)
         ELSE IF ~IsSurrogate(x)
         THEN inPlaceAppend(g, utf8(x))
         ELSE IF \/ g.hi - g.r < 6
                 \/ g.buf[g.r + 1] # Ch.backslash
                 \/ g.buf[g.r + 2] # Ch.u
         THEN inPlaceKeepEscape(g)
         ELSE Bind(parseHex4(SubSeq(g.buf, g.r + 3, g.r + 6)), LAMBDA x1 :
              IF x1 < 0
              THEN inPlaceKeepEscape(g)
              ELSE Bind(inPlaceAppend(g, utf8(DecodeRune(x, x1))), LAMBDA h :
                   [h EXCEPT !.r = @ + 6]))))

\* ch := s[0]; s = s[1:]; switch ch.
inPlaceSwitch(f) ==
    Bind(f.buf[f.r + 1], LAMBDA ch :
    Bind([f EXCEPT !.r = @ + 1], LAMBDA g :
    CASE ch = Ch.quote -> inPlaceAppend(g, <<Ch.quote>>)
      [] ch = Ch.backslash -> inPlaceAppend(g, <<Ch.backslash>>)
      [] ch = Ch.slash -> inPlaceAppend(g, <<Ch.slash>>)
      [] ch = Ch.b -> inPlaceAppend(g, <<Ch.bs>>)
      [] ch = Ch.f -> inPlaceAppend(g, <<Ch.ff>>)
      [] ch = Ch.n -> inPlaceAppend(g, <<Ch.lf>>)
      [] ch = Ch.r -> inPlaceAppend(g, <<Ch.cr>>)
      [] ch = Ch.t -> inPlaceAppend(g, <<Ch.tab>>)
      [] ch = Ch.u -> inPlaceU(g)
      [] OTHER -> inPlaceAppend(g, <<Ch.backslash, ch>>)))

\* n = strings.IndexByte(s, '\\'), then the copy of s or of s[:n]; brk says
\* the loop was left by break.
inPlaceCopy(f) ==
    Bind(inPlaceRest(f), LAMBDA str :
    Bind(IndexByte(str, Ch.backslash), LAMBDA n :
    IF n < 0
    THEN [f |-> [inPlaceAppend(f, str) EXCEPT !.r = f.hi], brk |-> TRUE]
    ELSE [f |-> [inPlaceAppend(f, Take(str, n)) EXCEPT !.r = @ + n + 1],
          brk |-> FALSE]))

\* b2s(b)
inPlaceResult(f) ==
    IF f.grown THEN f.nb ELSE SubSeq(f.buf, f.lo + 1, f.w)

\* The frame, with the buffer and the argument as they were at the call.
InPlaceOut(f, orig) ==
    [op |-> "unescape in place", lo |-> f.lo, hi |-> f.hi, w |-> f.w,
     r |-> f.r, grown |-> f.grown, nb |-> f.nb, fast |-> f.fast,
     orig |-> orig, val |-> inPlaceResult(f)]

InPlaceFrame ==
    [buf |-> s, lo |-> out.lo, hi |-> out.hi, w |-> out.w, r |-> out.r,
     grown |-> out.grown, nb |-> out.nb, fast |-> out.fast]

\* v.s = unescapeStringBestEffort(v.s) is called for the first string.
DoUnescapeEnter ==
    /\ pc = "start"
    /\ \E f \in {unescapeEnter(s, Len(InPlacePrefix), Len(s) - Len(InPlaceSuffix))} :
        /\ s' = f.buf
        /\ out' = InPlaceOut(f, s)
        /\ pc' = IF f.r < f.hi THEN "switch" ELSE "returned"
    /\ UNCHANGED <<partialKey, path, vs, root, err>>

DoUnescapeSwitch ==
    /\ pc = "switch"
    /\ \E f \in {inPlaceSwitch(InPlaceFrame)} :
        /\ s' = f.buf
        /\ out' = InPlaceOut(f, out.orig)
        /\ pc' = "copy"
    /\ UNCHANGED <<partialKey, path, vs, root, err>>

DoUnescapeCopy ==
    /\ pc = "copy"
    /\ \E m \in {inPlaceCopy(InPlaceFrame)} :
        /\ s' = m.f.buf
        /\ out' = InPlaceOut(m.f, out.orig)
        /\ pc' = IF m.brk \/ m.f.r >= m.f.hi THEN "returned" ELSE "switch"
    /\ UNCHANGED <<partialKey, path, vs, root, err>>

InPlaceNext == DoUnescapeEnter \/ DoUnescapeSwitch \/ DoUnescapeCopy

SpecInPlace == InPlaceInit /\ [][InPlaceNext]_vars

\* C19: at every step of an unescape in place the bytes written are at most
\* the bytes consumed and b never outgrows the slice, so the input not yet
\* read and every byte outside the slice are as they were; the text returned
\* is the unescaped argument.
C19_WritesBehindReads ==
    out.op = "unescape in place" =>
        /\ ~out.grown
        /\ out.lo <= out.w /\ out.w <= out.r /\ out.r <= out.hi
        /\ Len(s) = Len(out.orig)
        /\ SubSeq(s, out.r + 1, out.hi) = SubSeq(out.orig, out.r + 1, out.hi)
        /\ Take(s, out.lo) = Take(out.orig, out.lo)
        /\ Drop(s, out.hi) = Drop(out.orig, out.hi)
        /\ pc = "returned" =>
            out.val = unescapeStringBestEffort(
                          SubSeq(out.orig, out.lo + 1, out.hi))

\* The pair \uD83D\uDE00 was decoded over its own first four bytes, next to
\* the untouched second string.
C19_Witness ==
    /\ pc = "returned"
    /\ out.op = "unescape in place"
    /\ ~out.fast
    /\ out.val = <<240, 159, 152, 128>>
    /\ SubSeq(s, out.lo + 1, out.lo + 4) = out.val
    /\ Drop(s, out.hi) = InPlaceSuffix

====
